---- MODULE Spec2Model ----
(***************************************************************************)
(* Employment form: sanitization utilities (src/utils/sanitize.ts), the    *)
(* debounced total-income computation and the submit/export handler        *)
(* (src/components/EmploymentForm.tsx).                                    *)
(*                                                                         *)
(* JavaScript values are tagged records [t |-> typeof-like tag, v |-> ..]. *)
(* A JavaScript string is a sequence of one-character strings, so that the *)
(* character-level replacements of sanitizeString are computed, not        *)
(* assumed.                                                                *)
(***************************************************************************)
EXTENDS Integers, Sequences, FiniteSets, TLC

VARIABLES
  \* one mounted instance of EmploymentForm
  mounted,          \* the component is mounted
  now,              \* milliseconds elapsed since the mount
  defaultCurrency,  \* getDefaultCurrency() of the runtime locale
  values,           \* react-hook-form field values
  errors,           \* field paths with a validation error after the last submit
  totalIncome,      \* React state totalIncome: the displayed total
  debounce,         \* refs of useDebouncedCallback and its pending timeout
  showSuccess,      \* React state showSuccess
  downloadError,    \* React state downloadError (NoError for null)
  \* observations of what the handlers did
  calcRuns,         \* number of runs of calculateTotalIncome
  lastRunTime,      \* time of the last run of the debounced callback
  lastEditTime,     \* time of the last change event on a watched field
  lastChangeTime,   \* time the watched values last changed
  submitCount,      \* number of submit events
  sanitizeCalls,    \* number of calls of sanitizeFormData by the form
  submitLog,        \* what the last submit event did
  \* harness of the utility functions
  phase,     \* "input", "once", "twice"
  sArg,      \* argument handed to sanitizeString
  sRet,      \* result of sanitizeString(sArg)
  sRet2,     \* result of sanitizeString(sRet)
  dArg,      \* argument handed to sanitizeFormData
  dRet,      \* result of sanitizeFormData(dArg)
  callArgs,  \* the function called and the arguments handed to it
  callResult \* what the call returned

formVars == <<mounted, now, defaultCurrency, values, errors, totalIncome, debounce,
              showSuccess, downloadError>>
obsVars == <<calcRuns, lastRunTime, lastEditTime, lastChangeTime, submitCount,
             sanitizeCalls, submitLog>>
utilVars == <<phase, sArg, sRet, sRet2, dArg, dRet, callArgs, callResult>>
vars == <<formVars, obsVars, utilVars>>

(***************************************************************************)
(* Bounds of the model.                                                    *)
(***************************************************************************)
MaxStrLen == 4     \* longest string handed to sanitizeString
MaxDepth == 3      \* deepest nesting of the objects handed to sanitizeFormData
MaxTime == 1250    \* the clock stops after this many milliseconds
TickMs == 250      \* largest step of the clock
MaxSubmits == 2    \* submit events per run
MaxYears == 4      \* longest span of whole years handed to calculateTotalIncome
MaxPad == 2        \* most blanks before and after an employer name

(***************************************************************************)
(* JavaScript values.                                                      *)
(***************************************************************************)
Str(s)   == [t |-> "string", v |-> s]
Num(n)   == [t |-> "number", v |-> n]
Bool(b)  == [t |-> "boolean", v |-> b]
DateV(d) == [t |-> "date", v |-> d]
Obj(f)   == [t |-> "object", v |-> f]
Arr(s)   == [t |-> "array", v |-> s]
Null     == [t |-> "null"]
Undef    == [t |-> "undefined"]

\* the numbers that are not finite; Num(n) is the finite number n
NaN         == [t |-> "NaN"]
PosInfinity == [t |-> "Infinity"]
NegInfinity == [t |-> "-Infinity"]

\* typeof x === 'number'
TypeofNumber(x) == x.t \in {"number", "NaN", "Infinity", "-Infinity"}

\* The characters strings are drawn from: the six characters sanitizeString
\* escapes, and three characters that occur inside the entities it produces.
SpecialChars == {"&", "<", ">", "\"", "'", "/"}
Alphabet == SpecialChars \cup {"a", ";", "#"}

RECURSIVE StringsOfLen(_)
StringsOfLen(n) ==
  IF n = 0 THEN {<<>>}
  ELSE {<<c>> \o s : c \in Alphabet, s \in StringsOfLen(n - 1)}

Strings == UNION {StringsOfLen(n) : n \in 0..MaxStrLen}

(***************************************************************************)
(* String.prototype.replace(/c/g, rep): every occurrence of the character  *)
(* c, left to right, is replaced by rep; the replacement is not rescanned. *)
(***************************************************************************)
RECURSIVE ReplaceAll(_, _, _)
ReplaceAll(s, c, rep) ==
  IF s = <<>> THEN <<>>
  ELSE (IF Head(s) = c THEN rep ELSE <<Head(s)>>) \o ReplaceAll(Tail(s), c, rep)

EntAmp  == <<"&", "a", "m", "p", ";">>
EntLt   == <<"&", "l", "t", ";">>
EntGt   == <<"&", "g", "t", ";">>
EntQuot == <<"&", "q", "u", "o", "t", ";">>
EntApos == <<"&", "#", "x", "2", "7", ";">>
EntSlash == <<"&", "#", "x", "2", "F", ";">>

\* sanitizeString with the ampersand pass moved to the end of the chain.
sanitizeString_AmpLast(str) ==
  IF str.t # "string" THEN <<>>
  ELSE ReplaceAll(
         ReplaceAll(
           ReplaceAll(
             ReplaceAll(
               ReplaceAll(
                 ReplaceAll(str.v, "<", EntLt),
                 ">", EntGt),
               "\"", EntQuot),
             "'", EntApos),
           "/", EntSlash),
         "&", EntAmp)

\* sanitizeString that coerces a non-string with String(str) instead of
\* returning the empty string.
sanitizeString_Coerce(str) ==
  IF str.t # "string"
  THEN (IF str.t = "null" THEN <<"n", "u", "l", "l">> ELSE <<"?">>)
  ELSE ReplaceAll(
         ReplaceAll(
           ReplaceAll(
             ReplaceAll(
               ReplaceAll(
                 ReplaceAll(str.v, "&", EntAmp),
                 "<", EntLt),
               ">", EntGt),
             "\"", EntQuot),
           "'", EntApos),
         "/", EntSlash)

\* sanitizeString that leaves a string that already holds an entity alone.
sanitizeString_SkipEscaped(str) ==
  IF str.t # "string" THEN <<>>
  ELSE IF \E i \in 1..Len(str.v) : str.v[i] = ";" THEN str.v
  ELSE ReplaceAll(
         ReplaceAll(
           ReplaceAll(
             ReplaceAll(
               ReplaceAll(
                 ReplaceAll(str.v, "&", EntAmp),
                 "<", EntLt),
               ">", EntGt),
             "\"", EntQuot),
           "'", EntApos),
         "/", EntSlash)

(***************************************************************************)
(* sanitizeString: '' for a non-string; otherwise six global replacements  *)
(* applied one after the other, the ampersand first.                       *)
(***************************************************************************)
sanitizeString(str) ==
  IF str.t # "string" THEN <<>>
  ELSE ReplaceAll(
         ReplaceAll(
           ReplaceAll(
             ReplaceAll(
               ReplaceAll(
                 ReplaceAll(str.v, "&", EntAmp),
                 "<", EntLt),
               ">", EntGt),
             "\"", EntQuot),
           "'", EntApos),
         "/", EntSlash)

(***************************************************************************)
(* Outcome of a call that may throw.                                       *)
(***************************************************************************)
Return(v) == [kind |-> "return", value |-> v]
Throw(e)  == [kind |-> "throw", error |-> e]

\* new Error(message)
ErrorOf(message) == [isError |-> TRUE, name |-> "Error", message |-> message]

EmptyObj == [k \in {} |-> Null]

\* !data : the falsy values among the modelled ones
Falsy(x) ==
  \/ x.t \in {"null", "undefined", "NaN"}
  \/ x.t = "number" /\ x.v = 0
  \/ x.t = "boolean" /\ x.v = FALSE
  \/ x.t = "string" /\ x.v = <<>>

\* typeof x === 'object'
TypeofObject(x) == x.t \in {"object", "array", "date", "null"}

\* the own enumerable string keys a for-in loop visits: the keys of a plain
\* object, the indices of an array, none for a Date
OwnKeys(x) ==
  IF x.t = "object" THEN DOMAIN x.v
  ELSE IF x.t = "array" THEN {ToString(i - 1) : i \in 1..Len(x.v)}
  ELSE {}

\* data[key]
Prop(x, key) ==
  IF x.t = "array"
  THEN x.v[CHOOSE i \in 1..Len(x.v) : ToString(i - 1) = key]
  ELSE x.v[key]

\* sanitizeFormData that copies a nested object instead of recursing into it.
sanitizeFormData_Shallow(data) ==
  IF Falsy(data) \/ ~TypeofObject(data)
  THEN Throw(ErrorOf("Invalid data: Expected an object"))
  ELSE Return(Obj([key \in OwnKeys(data) |->
                LET value == Prop(data, key) IN
                  IF value.t = "string" THEN Str(sanitizeString(value))
                  ELSE value]))

\* sanitizeFormData whose guard is the typeof test alone: null passes it.
sanitizeFormData_TypeofOnly(data) ==
  IF ~TypeofObject(data)
  THEN Throw(ErrorOf("Invalid data: Expected an object"))
  ELSE Return(Obj([key \in OwnKeys(data) |->
                LET value == Prop(data, key) IN
                  IF value.t = "string" THEN Str(sanitizeString(value))
                  ELSE value]))

\* sanitizeFormData that also escapes the strings that are elements of an
\* array.
RECURSIVE sanitizeFormData_EscapeArrays(_)
sanitizeFormData_EscapeArrays(data) ==
  IF Falsy(data) \/ ~TypeofObject(data)
  THEN Throw(ErrorOf("Invalid data: Expected an object"))
  ELSE Return(Obj([key \in OwnKeys(data) |->
                LET value == Prop(data, key) IN
                  IF value.t = "string" THEN Str(sanitizeString(value))
                  ELSE IF value.t = "array"
                  THEN Arr([i \in 1..Len(value.v) |->
                              IF value.v[i].t = "string"
                              THEN Str(sanitizeString(value.v[i]))
                              ELSE value.v[i]])
                  ELSE IF value.t = "object"
                  THEN sanitizeFormData_EscapeArrays(value).value
                  ELSE value]))

(***************************************************************************)
(* sanitizeFormData: throws for a falsy or non-object argument; otherwise  *)
(* builds a fresh object key by key: strings are escaped, Dates and every  *)
(* other non-plain-object value are copied, plain objects are sanitized    *)
(* recursively.  A throw of a nested call is rethrown with a prefix.       *)
(***************************************************************************)
RECURSIVE sanitizeFormData(_)
sanitizeFormData(data) ==
  IF Falsy(data) \/ ~TypeofObject(data)
  THEN Throw(ErrorOf("Invalid data: Expected an object"))
  ELSE
    LET Nested(value) == value.t = "object"   \* typeof 'object', not null, not Date, not array
        Failing == {key \in OwnKeys(data) :
                      Nested(Prop(data, key)) /\ sanitizeFormData(Prop(data, key)).kind = "throw"}
    IN IF Failing # {}
       THEN Throw(ErrorOf("Failed to sanitize data"))
       ELSE Return(Obj([key \in OwnKeys(data) |->
                     LET value == Prop(data, key) IN
                       IF value.t = "string" THEN Str(sanitizeString(value))
                       ELSE IF value.t = "date" THEN value
                       ELSE IF Nested(value) THEN sanitizeFormData(value).value
                       ELSE value]))

(***************************************************************************)
(* Calendar moments.  A Date or dayjs value is [y, m, d, ms]: a day of the  *)
(* proleptic Gregorian calendar and the milliseconds elapsed in that day   *)
(* (one time zone, no daylight-saving shifts).  InvalidTime is the time    *)
(* value NaN of an invalid Date.                                           *)
(***************************************************************************)
MsPerDay == 24 * 60 * 60 * 1000

Moment(y, m, d, ms) == [y |-> y, m |-> m, d |-> d, ms |-> ms]
InvalidTime == Moment(0, 0, 0, 0)

\* dayjs(x).isValid()
isValid(t) == t # InvalidTime

IsLeapYear(y) == ((y % 4) = 0 /\ (y % 100) # 0) \/ (y % 400) = 0

daysInMonth(y, m) ==
  IF m = 2 THEN (IF IsLeapYear(y) THEN 29 ELSE 28)
  ELSE IF m \in {4, 6, 9, 11} THEN 30 ELSE 31

\* number of the day in a running count of days
DayNumber(t) ==
  LET yy  == IF t.m <= 2 THEN t.y - 1 ELSE t.y
      era == yy \div 400
      yoe == yy - (era * 400)
      mp  == (t.m + 9) % 12
      doy == (((153 * mp) + 2) \div 5) + t.d - 1
      doe == (yoe * 365) + (yoe \div 4) - (yoe \div 100) + doy
  IN (era * 146097) + doe

\* a - b in milliseconds, as <<whole days, milliseconds>> (both of one sign
\* or zero is not required: the value is days * MsPerDay + ms)
MsBetween(a, b) == <<DayNumber(a) - DayNumber(b), a.ms - b.ms>>

\* a.isBefore(b)
isBefore(a, b) ==
  LET diff == MsBetween(a, b)
  IN diff[1] < 0 \/ (diff[1] = 0 /\ diff[2] < 0)

\* dayjs add(n, 'month'): the day of the month is clamped to the length of
\* the target month, the time of day is kept
addMonths(t, n) ==
  LET total == (t.y * 12) + (t.m - 1) + n
      y2 == total \div 12
      m2 == (total % 12) + 1
      dim == daysInMonth(y2, m2)
  IN Moment(y2, m2, IF t.d < dim THEN t.d ELSE dim, t.ms)

\* A number of months w + (nd * MsPerDay + nms) / (ld * MsPerDay).
Months(w, nd, nms, ld) == [w |-> w, nd |-> nd, nms |-> nms, ld |-> ld]
NegMonths(q) == Months(-q.w, -q.nd, -q.nms, q.ld)

\* dayjs monthDiff(a, b) for a.date() >= b.date()
monthDiffAnchored(a, b) ==
  LET wholeMonthDiff == ((b.y - a.y) * 12) + (b.m - a.m)
      anchor  == addMonths(a, wholeMonthDiff)
      c       == isBefore(b, anchor)
      anchor2 == addMonths(a, wholeMonthDiff + (IF c THEN -1 ELSE 1))
      num     == MsBetween(b, anchor)
      den     == IF c THEN DayNumber(anchor) - DayNumber(anchor2)
                      ELSE DayNumber(anchor2) - DayNumber(anchor)
  IN NegMonths(Months(wholeMonthDiff, num[1], num[2], den))

\* dayjs monthDiff(a, b): the calendar months from b to a, with a fraction
\* measured against the length of the month around the anchor
monthDiff(a, b) ==
  IF a.d < b.d THEN NegMonths(monthDiffAnchored(b, a))
  ELSE monthDiffAnchored(a, b)

\* (x * y) % z and (x * y) \div z for x, y >= 0 and z > 0, computed by
\* halving y, without forming the product
RECURSIVE MulMod(_, _, _)
MulMod(x, y, z) ==
  IF y = 0 THEN 0
  ELSE ((2 * MulMod(x, y \div 2, z)) + (IF (y % 2) = 1 THEN (x % z) ELSE 0)) % z

RECURSIVE MulDiv(_, _, _)
MulDiv(x, y, z) ==
  IF y = 0 THEN 0
  ELSE (2 * MulDiv(x, y \div 2, z))
         + (IF (y % 2) = 1 THEN (x \div z) ELSE 0)
         + (((2 * MulMod(x, y \div 2, z)) + (IF (y % 2) = 1 THEN (x % z) ELSE 0)) \div z)

(***************************************************************************)
(* currency(annualIncome).multiply(years).value with years = months / 12.  *)
(* Money is counted in cents: the result is the integer intValue of the    *)
(* currency object.  currency.js scales the product to cents, rounds it to *)
(* four decimals (toFixed(4)) and then to the nearest integer              *)
(* (Math.round).  The quotient is computed here over the rationals.        *)
(***************************************************************************)
MultiplyByYears(incomeCents, q) ==
  LET days0 == (q.w * q.ld) + q.nd
      days  == IF q.nms < 0 THEN days0 - 1 ELSE days0
      ms    == IF q.nms < 0 THEN q.nms + MsPerDay ELSE q.nms
      D     == 12 * q.ld
      a     == incomeCents \div D
      b     == incomeCents % D
      q1    == (a * days) + ((b * days) \div D)
      r1    == (b * days) % D
      e1    == MulDiv(incomeCents, ms, MsPerDay)
      e0    == MulMod(incomeCents, ms, MsPerDay)
      g     == (r1 + e1) \div D
      h     == (r1 + e1) % D
      fixed4 == ((20000 * h) + D + (e0 \div 4320)) \div (2 * D)
  IN q1 + g + ((fixed4 + 5000) \div 10000)

(***************************************************************************)
(* calculateTotalIncome(annualIncome, startDate, endDate), evaluated at    *)
(* the moment clock.  The result is a number: Cents(n) is n / 100, and     *)
(* NaN and the infinities are themselves.  A throw inside the try block    *)
(* ends in the catch block, which logs and returns 0.  For an infinite     *)
(* income currency(annualIncome) holds Infinity, whose product with the    *)
(* years is Infinity, or NaN when the years are 0.                         *)
(***************************************************************************)
Cents(n) == [t |-> "cents", v |-> n]

\* annualIncome <= 0
NotPositive(x) ==
  \/ x.t = "-Infinity"
  \/ x.t = "number" /\ x.v <= 0

\* calculateTotalIncome without the test of the argument's type: a value
\* that is not a number goes on into the computation.
calculateTotalIncome_NoTypeTest(annualIncome, startDate, endDate, clock) ==
  IF Falsy(startDate) \/ Falsy(annualIncome) \/ NotPositive(annualIncome) THEN Cents(0)
  ELSE LET start == startDate.v
           end   == IF Falsy(endDate) THEN clock ELSE endDate.v
       IN IF ~isValid(start) THEN Cents(0)
          ELSE IF ~Falsy(endDate) /\ ~isValid(end) THEN Cents(0)
          ELSE IF isBefore(end, start) THEN Cents(0)
          ELSE IF annualIncome.t # "number" THEN NaN
          ELSE Cents(MultiplyByYears(annualIncome.v * 100, monthDiff(end, start)))

\* calculateTotalIncome without the test that the end is before the start:
\* the years of a reversed span are counted from the start to the end.
calculateTotalIncome_NoOrderTest(annualIncome, startDate, endDate, clock) ==
  IF ~TypeofNumber(annualIncome) \/ annualIncome = NaN THEN Cents(0)
  ELSE IF Falsy(startDate) \/ Falsy(annualIncome) \/ NotPositive(annualIncome) THEN Cents(0)
  ELSE LET start == startDate.v
           end   == IF Falsy(endDate) THEN clock ELSE endDate.v
           first == IF isBefore(end, start) THEN end ELSE start
           last  == IF isBefore(end, start) THEN start ELSE end
       IN IF ~isValid(start) THEN Cents(0)
          ELSE IF ~Falsy(endDate) /\ ~isValid(end) THEN Cents(0)
          ELSE IF annualIncome = PosInfinity
          THEN (IF end = start THEN NaN ELSE PosInfinity)
          ELSE Cents(MultiplyByYears(annualIncome.v * 100, monthDiff(last, first)))

\* calculateTotalIncome that counts a year as 365 days.
calculateTotalIncome_Days365(annualIncome, startDate, endDate, clock) ==
  IF ~TypeofNumber(annualIncome) \/ annualIncome = NaN THEN Cents(0)
  ELSE IF Falsy(startDate) \/ Falsy(annualIncome) \/ NotPositive(annualIncome) THEN Cents(0)
  ELSE LET start == startDate.v
           end   == IF Falsy(endDate) THEN clock ELSE endDate.v
       IN IF ~isValid(start) THEN Cents(0)
          ELSE IF ~Falsy(endDate) /\ ~isValid(end) THEN Cents(0)
          ELSE IF isBefore(end, start) THEN Cents(0)
          ELSE IF annualIncome = PosInfinity
          THEN (IF end = start THEN NaN ELSE PosInfinity)
          ELSE Cents(MulDiv(annualIncome.v * 100, DayNumber(end) - DayNumber(start), 365))

\* the try block of calculateTotalIncome: what it returns or throws
calculateTotalIncomeTry(annualIncome, startDate, endDate, clock) ==
  IF ~TypeofNumber(annualIncome) \/ annualIncome = NaN
  THEN Throw(ErrorOf("Annual income must be a valid number"))
  ELSE IF Falsy(startDate) \/ Falsy(annualIncome) \/ NotPositive(annualIncome)
  THEN Return(Cents(0))
  ELSE LET start == startDate.v
           end   == IF Falsy(endDate) THEN clock ELSE endDate.v
       IN IF ~isValid(start) THEN Throw(ErrorOf("Invalid start date"))
          ELSE IF ~Falsy(endDate) /\ ~isValid(end) THEN Throw(ErrorOf("Invalid end date"))
          ELSE IF isBefore(end, start) THEN Return(Cents(0))
          ELSE IF annualIncome = PosInfinity
          THEN Return(IF end = start THEN NaN ELSE PosInfinity)
          ELSE Return(Cents(MultiplyByYears(annualIncome.v * 100, monthDiff(end, start))))

\* calculateTotalIncome without the catch block: what the try block throws
\* leaves the function.
calculateTotalIncome_NoCatch(annualIncome, startDate, endDate, clock) ==
  LET tried == calculateTotalIncomeTry(annualIncome, startDate, endDate, clock)
  IN IF tried.kind = "throw" THEN tried ELSE tried.value

calculateTotalIncome(annualIncome, startDate, endDate, clock) ==
  LET tried == calculateTotalIncomeTry(annualIncome, startDate, endDate, clock)
  IN IF tried.kind = "throw"
     THEN Cents(0)          \* the catch block logs the error and returns 0
     ELSE tried.value

(***************************************************************************)
(* Currency table and currency(...).format() with pattern '! #', two       *)
(* decimals and groups of three digits.                                    *)
(***************************************************************************)
USD == <<"U", "S", "D">>
EUR == <<"E", "U", "R">>
GBP == <<"G", "B", "P">>
INR == <<"I", "N", "R">>

SUPPORTED_CURRENCIES ==
  <<[code |-> USD, symbol |-> "$"],
    [code |-> EUR, symbol |-> "€"],
    [code |-> GBP, symbol |-> "£"],
    [code |-> INR, symbol |-> "₹"]>>

\* getCurrencyInfo(code)?.symbol || '$'
SymbolOf(code) ==
  IF \E i \in 1..Len(SUPPORTED_CURRENCIES) : SUPPORTED_CURRENCIES[i].code = code
  THEN SUPPORTED_CURRENCIES[CHOOSE i \in 1..Len(SUPPORTED_CURRENCIES) :
                              SUPPORTED_CURRENCIES[i].code = code].symbol
  ELSE "$"

Pad2(n) == IF n < 10 THEN "0" \o ToString(n) ELSE ToString(n)
Pad3(n) == IF n < 10 THEN "00" \o ToString(n)
           ELSE IF n < 100 THEN "0" \o ToString(n) ELSE ToString(n)

RECURSIVE Grouped(_)
Grouped(n) ==
  IF n < 1000 THEN ToString(n)
  ELSE Grouped(n \div 1000) \o "," \o Pad3(n % 1000)

\* currency(cents / 100, {symbol, precision: 2, pattern: '! #'}).format()
FormatCurrency(symbol, cents) ==
  symbol \o " " \o Grouped(cents \div 100) \o "." \o Pad2(cents % 100)

(***************************************************************************)
(* getDefaultCurrency.  A locale tag is [lang, region]: the part before    *)
(* the first "-" and the rest ("" when there is none); the empty tag is    *)
(* [lang |-> "", region |-> ""].                                           *)
(***************************************************************************)
Locale(lang, region) == [lang |-> lang, region |-> region]

localeMap ==
  <<[key |-> Locale("en", "US"), code |-> USD],
    [key |-> Locale("en", "GB"), code |-> GBP],
    [key |-> Locale("de", "DE"), code |-> EUR],
    [key |-> Locale("fr", "FR"), code |-> EUR],
    [key |-> Locale("es", "ES"), code |-> EUR],
    [key |-> Locale("it", "IT"), code |-> EUR],
    [key |-> Locale("en", "IN"), code |-> INR]>>

\* the entries of localeMap, in the order of Object.entries, whose key
\* starts with the language and a hyphen
LanguageEntries(language) ==
  SelectSeq(localeMap, LAMBDA e : e.key.lang = language)

\* getDefaultCurrency without the search by language
getDefaultCurrency_ExactOnly(navigatorLanguage) ==
  LET exact == SelectSeq(localeMap, LAMBDA e : e.key = navigatorLanguage)
  IN IF exact # <<>> THEN exact[1].code ELSE USD

getDefaultCurrency(navigatorLanguage) ==
  LET locale == IF navigatorLanguage = Locale("", "") THEN Locale("en", "US")
                ELSE navigatorLanguage
      \* locale in localeMap: the keys of localeMap are distinct
      exact == SelectSeq(localeMap, LAMBDA e : e.key = locale)
      \* Object.entries(localeMap).find(...)
      matching == LanguageEntries(locale.lang)
  IN IF exact # <<>> THEN exact[1].code
     ELSE IF matching # <<>> THEN matching[1].code
     ELSE USD

(***************************************************************************)
(* The form instance.                                                      *)
(***************************************************************************)
DebounceWait == 500

\* The wall clock reads MountMoment when the component mounts.
MountMoment == Moment(2024, 3, 15, 12 * 60 * 60 * 1000)
ClockAt(t) == [MountMoment EXCEPT !.ms = MountMoment.ms + t]

\* useForm defaultValues; the two dates are not listed and start undefined
DefaultValues(currencyCode) ==
  [employerName |-> Str(<<>>),
   currency |-> Str(currencyCode),
   annualGrossIncome |-> Num(0),
   employmentStartDate |-> Undef,
   employmentEndDate |-> Undef,
   notes |-> Str(<<>>)]

\* a || b
OrElse(a, b) == IF Falsy(a) THEN b ELSE a

\* the arguments the effect hands to debouncedCalculate
EffectArgs(v) ==
  [currencyCode |-> OrElse(v.currency, Str(USD)),
   income |-> OrElse(v.annualGrossIncome, Num(0)),
   start |-> OrElse(v.employmentStartDate, Null),
   end |-> OrElse(v.employmentEndDate, Null)]

NoArgs == [currencyCode |-> Null, income |-> Null, start |-> Null, end |-> Null]

\* useDebouncedCallback before its first call
DebounceIdle ==
  [timerId |-> FALSE,      \* timerId.current is set
   armed |-> FALSE,        \* a timeout is waiting in the event loop
   due |-> 0,              \* when that timeout expires
   lastCallTime |-> 0,
   lastArgs |-> NoArgs]

\* a debounced call that starts a fresh timeout even when one is waiting, and
\* keeps the arguments of the first call of the window
DebouncedCall_KeepFirst(d, args, t) ==
  [d EXCEPT !.lastArgs = IF d.timerId THEN d.lastArgs ELSE args,
            !.lastCallTime = t,
            !.timerId = TRUE,
            !.armed = TRUE,
            !.due = IF d.timerId THEN d.due ELSE t + DebounceWait]

\* a debounced call that does not record the time of the call when a timeout
\* is already waiting (no restart of the quiet period)
DebouncedCall_NoRestart(d, args, t) ==
  [d EXCEPT !.lastArgs = args,
            !.lastCallTime = IF d.timerId THEN d.lastCallTime ELSE t,
            !.timerId = TRUE,
            !.armed = TRUE,
            !.due = IF d.timerId THEN d.due ELSE t + DebounceWait]

\* debouncedCalculate(args) at time t: the call records its arguments and
\* its time; it starts the timeout unless one is already waiting
DebouncedCall(d, args, t) ==
  [d EXCEPT !.lastArgs = args,
            !.lastCallTime = t,
            !.timerId = TRUE,
            !.armed = TRUE,
            !.due = IF d.timerId THEN d.due ELSE t + DebounceWait]

\* the callback of useDebouncedCallback: the text of the total
FormattedTotal(args, clock) ==
  LET total == calculateTotalIncome(args.income, args.start, args.end, clock)
  IN IF total.t = "cents" THEN FormatCurrency(SymbolOf(args.currencyCode.v), total.v)
     ELSE SymbolOf(args.currencyCode.v) \o " " \o total.t

\* The effect on [selectedCurrency, annualIncome, startDate, endDate]: it
\* runs after a render in which one of them changed.
RunEffect(changed) ==
  IF changed
  THEN /\ debounce' = DebouncedCall(debounce, EffectArgs(values'), now)
       /\ lastChangeTime' = now
  ELSE UNCHANGED <<debounce, lastChangeTime>>

\* downloadError is null
NoMessage == <<>>

\* no error was thrown
NoThrow == [isError |-> FALSE, name |-> "", message |-> ""]

\* nothing was handed to the browser as a download
NoContent == <<>>

\* the record of a submit event that validation rejected
Rejected(success, message) ==
  [sanitizeRuns |-> 0, urlCreated |-> FALSE, urlRevoked |-> FALSE,
   downloaded |-> NoContent, filename |-> <<>>, caught |-> NoThrow,
   escaped |-> FALSE, logged |-> FALSE,
   showSuccess |-> success, downloadError |-> message]

FormInit ==
  /\ mounted = TRUE
  /\ now = 0
  /\ values = DefaultValues(defaultCurrency)
  /\ errors = {}
  /\ totalIncome = "$0"
  \* the effect runs once after the first render
  /\ debounce = DebouncedCall(DebounceIdle, EffectArgs(values), 0)
  /\ showSuccess = FALSE
  /\ downloadError = NoMessage
  /\ calcRuns = 0
  /\ lastRunTime = 0
  /\ lastEditTime = 0
  /\ lastChangeTime = 0
  /\ submitCount = 0
  /\ sanitizeCalls = 0
  /\ submitLog = Rejected(FALSE, NoMessage)

UtilIdle ==
  /\ phase = "idle"
  /\ sArg = Undef
  /\ sRet = <<"?">>
  /\ sRet2 = <<"?">>
  /\ dArg = Undef
  /\ dRet = Return(Undef)
  /\ callArgs = Undef
  /\ callResult = Undef

Locales == {Locale("en", "US"), Locale("de", "DE"), Locale("ja", "JP")}

Init ==
  /\ \E loc \in Locales : defaultCurrency = getDefaultCurrency(loc)
  /\ FormInit
  /\ UtilIdle

(***************************************************************************)
(* Edits of the watched fields.                                            *)
(***************************************************************************)
CurrencyChoices == {USD, EUR}

\* SelectField: the select writes the chosen option; choosing the selected
\* option again is no change event
EditCurrency(code) ==
  /\ mounted
  /\ values.currency # Str(code)
  /\ values' = [values EXCEPT !.currency = Str(code)]
  /\ lastEditTime' = now
  /\ RunEffect(values'.currency # values.currency)
  /\ UNCHANGED <<mounted, now, defaultCurrency, errors, totalIncome, showSuccess,
                 downloadError, calcRuns, lastRunTime, submitCount, sanitizeCalls,
                 submitLog, utilVars>>

Digits == <<"0", "1", "2", "3", "4", "5", "6", "7", "8", "9">>
IsDigit(c) == \E i \in 1..10 : Digits[i] = c
DigitValue(c) == (CHOOSE i \in 1..10 : Digits[i] = c) - 1

\* handleChange with parseInt left to skip what is not a digit: the digits
\* before the first other character
RECURSIVE StripNonDigits_Prefix(_)
StripNonDigits_Prefix(raw) ==
  IF raw = <<>> \/ ~IsDigit(Head(raw)) THEN <<>>
  ELSE <<Head(raw)>> \o StripNonDigits_Prefix(Tail(raw))

\* raw.replace(/[^\d]/g, '')
RECURSIVE StripNonDigits(_)
StripNonDigits(raw) ==
  IF raw = <<>> THEN <<>>
  ELSE (IF IsDigit(Head(raw)) THEN <<Head(raw)>> ELSE <<>>) \o StripNonDigits(Tail(raw))

\* the integer a non-empty string of digits stands for
RECURSIVE DecimalValue(_)
DecimalValue(digits) ==
  IF Len(digits) = 1 THEN DigitValue(digits[1])
  ELSE (10 * DecimalValue(SubSeq(digits, 1, Len(digits) - 1))) + DigitValue(digits[Len(digits)])

\* a string of digits without the zeros in front of its first other digit
RECURSIVE StripLeadingZeros(_)
StripLeadingZeros(digits) ==
  IF Len(digits) > 1 /\ Head(digits) = "0" THEN StripLeadingZeros(Tail(digits))
  ELSE digits

\* a number too large for Num: the decimal digits of its integer value
BigNum(numeral) == [t |-> "number", big |-> numeral]
IsBig(x) == x.t = "number" /\ "big" \in DOMAIN x

\* 2 ^ 53: from here up to 2 ^ 54 a number holds the even integers only
TwoTo53 == <<"9", "0", "0", "7", "1", "9", "9", "2", "5", "4", "7", "4", "0", "9", "9", "2">>

\* a >= b for two numerals of the same length
RECURSIVE NumeralGeq(_, _)
NumeralGeq(a, b) ==
  IF a = <<>> THEN TRUE
  ELSE IF Head(a) # Head(b) THEN DigitValue(Head(a)) > DigitValue(Head(b))
  ELSE NumeralGeq(Tail(a), Tail(b))

\* the numeral of the next integer
RECURSIVE Increment(_)
Increment(numeral) ==
  IF numeral = <<>> THEN <<"1">>
  ELSE LET last == DigitValue(numeral[Len(numeral)])
           front == SubSeq(numeral, 1, Len(numeral) - 1)
       IN IF last = 9 THEN Increment(front) \o <<"0">>
          ELSE front \o <<Digits[last + 2]>>

\* the number (IEEE 754 double) nearest to the integer of a numeral of at
\* most 16 digits: the integer itself below 2 ^ 53, else the nearest even
\* integer, the one that is a multiple of 4 when the integer is odd
NearestDouble(numeral) ==
  IF Len(numeral) < 16 \/ ~NumeralGeq(numeral, TwoTo53) THEN numeral
  ELSE LET n == Len(numeral)
           last == DigitValue(numeral[n])
           r == ((10 * DigitValue(numeral[n - 1])) + last) % 4
       IN CASE r = 1 -> SubSeq(numeral, 1, n - 1) \o <<Digits[last]>>
            [] r = 3 -> Increment(numeral)
            [] OTHER -> numeral

\* parseInt(digits, 10) of a non-empty string of at most 16 digits
ParseInt(digits) ==
  LET numeral == StripLeadingZeros(digits)
  IN IF Len(numeral) <= 9 THEN Num(DecimalValue(numeral))
     ELSE BigNum(NearestDouble(numeral))

\* CurrencyField handleChange: the number handed to field.onChange
CurrencyFieldValue(raw) ==
  LET value == StripNonDigits(raw)
  IN IF value # <<>> THEN ParseInt(value) ELSE Num(0)

\* the decimal digits of a natural number
RECURSIVE DigitsOf(_)
DigitsOf(n) ==
  IF n < 10 THEN <<Digits[n + 1]>>
  ELSE DigitsOf(n \div 10) \o <<Digits[(n % 10) + 1]>>

\* String(value) of a number that is a natural number
NumberToString(value) == IF IsBig(value) THEN value.big ELSE DigitsOf(value.v)

\* the focused CurrencyField showing 0 as "0"
FocusedText_ZeroShown(fieldValue) == NumberToString(fieldValue)

\* the text of the focused CurrencyField: field.value || ''
FocusedText(fieldValue) ==
  IF ~IsBig(fieldValue) /\ Falsy(fieldValue) THEN <<>> ELSE NumberToString(fieldValue)

RawIncomes ==
  {<<>>, <<"1", "2", "0", "0">>, <<"1", "2", "0", "0", "a">>}

\* a keystroke in the focused CurrencyField: the text of the input becomes
\* raw, which differs from the text shown before
EditIncome(raw) ==
  /\ mounted
  /\ raw # FocusedText(values.annualGrossIncome)
  /\ values' = [values EXCEPT !.annualGrossIncome = CurrencyFieldValue(raw)]
  /\ lastEditTime' = now
  /\ RunEffect(values'.annualGrossIncome # values.annualGrossIncome)
  /\ UNCHANGED <<mounted, now, defaultCurrency, errors, totalIncome, showSuccess,
                 downloadError, calcRuns, lastRunTime, submitCount, sanitizeCalls,
                 submitLog, utilVars>>

\* what the date picker hands over: a day at midnight, or null
PickedStartDates == {Null, DateV(Moment(2023, 1, 1, 0))}
PickedEndDates == {Null, DateV(Moment(2024, 1, 1, 0))}

\* DateField handleChange: onChange(date?.toDate())
DateFieldValue(picked) == IF picked = Null THEN Undef ELSE picked

\* toDate() makes a new Date object each time, so the watched value differs
\* from the one before; clearing an empty picker is no change event
EditStartDate(picked) ==
  /\ mounted
  /\ picked = Null => values.employmentStartDate # Undef
  /\ values' = [values EXCEPT !.employmentStartDate = DateFieldValue(picked)]
  /\ lastEditTime' = now
  /\ RunEffect(TRUE)
  /\ UNCHANGED <<mounted, now, defaultCurrency, errors, totalIncome, showSuccess,
                 downloadError, calcRuns, lastRunTime, submitCount, sanitizeCalls,
                 submitLog, utilVars>>

EditEndDate(picked) ==
  /\ mounted
  /\ picked = Null => values.employmentEndDate # Undef
  /\ values' = [values EXCEPT !.employmentEndDate = DateFieldValue(picked)]
  /\ lastEditTime' = now
  /\ RunEffect(TRUE)
  /\ UNCHANGED <<mounted, now, defaultCurrency, errors, totalIncome, showSuccess,
                 downloadError, calcRuns, lastRunTime, submitCount, sanitizeCalls,
                 submitLog, utilVars>>

\* the watched values of two renders differ (Object.is on each of the four)
WatchedDiffer(v, w) ==
  \/ v.currency # w.currency
  \/ v.annualGrossIncome # w.annualGrossIncome
  \/ v.employmentStartDate # w.employmentStartDate
  \/ v.employmentEndDate # w.employmentEndDate

\* handleFormReset: reset() puts the default values back and clears the
\* errors, onCancel hides the success notification
handleFormReset ==
  /\ mounted
  /\ values' = DefaultValues(defaultCurrency)
  /\ errors' = {}
  /\ showSuccess' = FALSE
  /\ lastEditTime' = IF WatchedDiffer(values, values') THEN now ELSE lastEditTime
  /\ RunEffect(WatchedDiffer(values, values'))
  /\ UNCHANGED <<mounted, now, defaultCurrency, totalIncome, downloadError, calcRuns,
                 lastRunTime, submitCount, sanitizeCalls, submitLog, utilVars>>

(***************************************************************************)
(* Time and the timeout of the debounce.                                   *)
(***************************************************************************)
Min(a, b) == IF a < b THEN a ELSE b

\* Time passes; a waiting timeout expires when it is due, not later.
Tick ==
  /\ now < MaxTime
  /\ debounce.armed => now < debounce.due
  /\ now' = Min(Min(now + TickMs, MaxTime),
                IF debounce.armed THEN debounce.due ELSE MaxTime)
  /\ UNCHANGED <<mounted, defaultCurrency, values, errors, totalIncome, debounce,
                 showSuccess, downloadError, obsVars, utilVars>>

\* timerExpired without the check of the mounted flag
TimerExpired_NoMountedGuard ==
  /\ debounce.armed
  /\ now = debounce.due
  /\ IF now - debounce.lastCallTime >= DebounceWait
     THEN /\ debounce' = [debounce EXCEPT !.armed = FALSE, !.timerId = FALSE,
                                          !.lastArgs = NoArgs]
          /\ totalIncome' = FormattedTotal(debounce.lastArgs, ClockAt(now))
          /\ calcRuns' = calcRuns + 1
          /\ lastRunTime' = now
     ELSE /\ debounce' = [debounce EXCEPT !.due = debounce.lastCallTime + DebounceWait]
          /\ UNCHANGED <<totalIncome, calcRuns, lastRunTime>>
  /\ UNCHANGED <<mounted, now, defaultCurrency, values, errors, showSuccess,
                 downloadError, lastEditTime, lastChangeTime, submitCount,
                 sanitizeCalls, submitLog, utilVars>>

\* timerExpired of useDebouncedCallback.  After the unmount it does
\* nothing.  When the last call is less than the wait ago the timeout is
\* started again for the rest of the wait.  Otherwise the callback runs
\* with the arguments of the last call (trailing edge).
TimerExpired ==
  /\ debounce.armed
  /\ now = debounce.due
  /\ IF ~mounted
     THEN /\ debounce' = [debounce EXCEPT !.armed = FALSE]
          /\ UNCHANGED <<totalIncome, calcRuns, lastRunTime>>
     ELSE IF now - debounce.lastCallTime >= DebounceWait
     THEN /\ debounce' = [debounce EXCEPT !.armed = FALSE, !.timerId = FALSE,
                                          !.lastArgs = NoArgs]
          /\ totalIncome' = FormattedTotal(debounce.lastArgs, ClockAt(now))
          /\ calcRuns' = calcRuns + 1
          /\ lastRunTime' = now
     ELSE /\ debounce' = [debounce EXCEPT !.due = debounce.lastCallTime + DebounceWait]
          /\ UNCHANGED <<totalIncome, calcRuns, lastRunTime>>
  /\ UNCHANGED <<mounted, now, defaultCurrency, values, errors, showSuccess,
                 downloadError, lastEditTime, lastChangeTime, submitCount,
                 sanitizeCalls, submitLog, utilVars>>

\* the form instance is torn down
Unmount ==
  /\ mounted
  /\ mounted' = FALSE
  /\ UNCHANGED <<now, defaultCurrency, values, errors, totalIncome, debounce,
                 showSuccess, downloadError, obsVars, utilVars>>

Next ==
  \/ \E code \in CurrencyChoices : EditCurrency(code)
  \/ \E raw \in RawIncomes : EditIncome(raw)
  \/ \E picked \in PickedStartDates : EditStartDate(picked)
  \/ \E picked \in PickedEndDates : EditEndDate(picked)
  \/ handleFormReset
  \/ Tick
  \/ TimerExpired
  \/ Unmount

Spec == Init /\ [][Next]_vars

(***************************************************************************)
(* employmentSchema (zod).                                                 *)
(***************************************************************************)
MIN_EMPLOYER_NAME_LENGTH == 1
MAX_EMPLOYER_NAME_LENGTH == 100
MIN_ANNUAL_INCOME == 1
MAX_ANNUAL_INCOME == 1000000000
MAX_NOTES_LENGTH == 500

WhitespaceChars == {" ", "\t", "\n"}

\* String.prototype.trim
RECURSIVE TrimStart(_)
TrimStart(str) ==
  IF str # <<>> /\ Head(str) \in WhitespaceChars THEN TrimStart(Tail(str)) ELSE str

RECURSIVE TrimEnd(_)
TrimEnd(str) ==
  IF str # <<>> /\ str[Len(str)] \in WhitespaceChars
  THEN TrimEnd(SubSeq(str, 1, Len(str) - 1)) ELSE str

Trim(str) == TrimEnd(TrimStart(str))

UpperCaseLetters ==
  {"A", "B", "C", "D", "E", "F", "G", "H", "I", "J", "K", "L", "M",
   "N", "O", "P", "Q", "R", "S", "T", "U", "V", "W", "X", "Y", "Z"}

\* z.date(): a Date object that is not an invalid date
IsDate(x) == x.t = "date" /\ isValid(x.v)

\* a < b on two Dates
DateLeq_Strict(a, b) == isBefore(a.v, b.v)

\* a <= b on two Dates
DateLeq(a, b) == ~isBefore(b.v, a.v)

\* a field whose value has the wrong type: the parse of the object is
\* aborted and the cross-field refinement does not run
TypeIssues(data) ==
  {path \in {"employerName", "currency", "annualGrossIncome", "employmentStartDate",
             "employmentEndDate", "notes"} :
     CASE path = "employerName" -> data.employerName.t # "string"
       [] path = "currency" -> data.currency.t # "string"
       [] path = "annualGrossIncome" ->
            ~TypeofNumber(data.annualGrossIncome) \/ data.annualGrossIncome = NaN
       [] path = "employmentStartDate" -> ~IsDate(data.employmentStartDate)
       [] path = "employmentEndDate" ->
            data.employmentEndDate # Undef /\ ~IsDate(data.employmentEndDate)
       [] path = "notes" -> data.notes # Undef /\ data.notes.t # "string"}

\* the checks of the fields that have the right type; the length checks of
\* employerName come before its trim and see the untrimmed string
CheckIssues(data, clock) ==
  {path \in {"employerName", "currency", "annualGrossIncome", "employmentStartDate",
             "notes"} \ TypeIssues(data) :
     CASE path = "employerName" ->
            \/ Len(data.employerName.v) < MIN_EMPLOYER_NAME_LENGTH
            \/ Len(data.employerName.v) > MAX_EMPLOYER_NAME_LENGTH
       [] path = "currency" ->
            \/ Len(data.currency.v) < 1
            \/ ~(/\ Len(data.currency.v) = 3
                 /\ \A i \in 1..3 : data.currency.v[i] \in UpperCaseLetters)
       [] path = "annualGrossIncome" ->
            \/ data.annualGrossIncome.t # "number"      \* an infinity
            \/ ~(data.annualGrossIncome.v > 0)
            \/ data.annualGrossIncome.v < MIN_ANNUAL_INCOME
            \/ data.annualGrossIncome.v > MAX_ANNUAL_INCOME
       [] path = "employmentStartDate" ->
            ~DateLeq(data.employmentStartDate, DateV(clock))
       [] path = "notes" ->
            data.notes # Undef /\ Len(data.notes.v) > MAX_NOTES_LENGTH}

\* the refinement reported under employmentStartDate instead
RefineIssues_StartPath(data) ==
  IF /\ data.employmentStartDate # Undef
     /\ data.employmentEndDate # Undef
     /\ data.employmentStartDate.t = "date"
     /\ data.employmentEndDate.t = "date"
     /\ ~isBefore(data.employmentStartDate.v, data.employmentEndDate.v)
  THEN {"employmentStartDate"} ELSE {}

\* the refinement of the whole object, reported under employmentEndDate
RefineIssues(data) ==
  IF /\ TypeIssues(data) = {}
     /\ data.employmentEndDate # Undef
     /\ DateLeq(data.employmentEndDate, data.employmentStartDate)
  THEN {"employmentEndDate"} ELSE {}

\* the field paths employmentSchema reports for data at the moment clock
SchemaIssues(data, clock) ==
  TypeIssues(data) \cup CheckIssues(data, clock) \cup RefineIssues(data)

\* the output of a successful parse: employerName is trimmed
SchemaOutput(data) ==
  [data EXCEPT !.employerName = Str(Trim(data.employerName.v))]

(***************************************************************************)
(* The standalone validators of sanitize.ts.                               *)
(***************************************************************************)
LowerCaseLetters ==
  {"a", "b", "c", "d", "e", "f", "g", "h", "i", "j", "k", "l", "m",
   "n", "o", "p", "q", "r", "s", "t", "u", "v", "w", "x", "y", "z"}

\* the character class [a-zA-Z0-9\s\-.,&'()]
NamePatternChars ==
  LowerCaseLetters \cup UpperCaseLetters \cup {Digits[i] : i \in 1..Len(Digits)}
    \cup WhitespaceChars \cup {"-", ".", ",", "&", "'", "(", ")"}

\* validateIncome with the lower end of the form schema.
validateIncome_FromOne(income) ==
  income.t = "number" /\ income.v >= 1 /\ income.v <= 1000000000

\* validateIncome(income): a comparison with NaN is false, the infinities
\* are outside the range
validateIncome(income) ==
  income.t = "number" /\ income.v >= 0 /\ income.v <= 1000000000

\* validateEmployerName without the test of the length.
validateEmployerName_NoLength(name) ==
  /\ Len(name) >= 1
  /\ \A i \in 1..Len(name) : name[i] \in NamePatternChars

\* validateEmployerName(name): validPattern.test(name) && name.length <= 100
validateEmployerName(name) ==
  /\ Len(name) >= 1
  /\ \A i \in 1..Len(name) : name[i] \in NamePatternChars
  /\ Len(name) <= 100

(***************************************************************************)
(* JSON.stringify of the exported record.  The text is kept as the list of *)
(* its members, in the order of the keys; a member with the value          *)
(* undefined is left out, a Date is written as its ISO string.             *)
(***************************************************************************)
FormKeys ==
  <<"employerName", "currency", "annualGrossIncome", "employmentStartDate",
    "employmentEndDate", "notes">>

\* n in decimal, filled with zeros to the given width
RECURSIVE PadDigits(_, _)
PadDigits(n, width) ==
  IF width = 0 THEN <<>>
  ELSE PadDigits(n \div 10, width - 1) \o <<Digits[(n % 10) + 1]>>

\* Date.prototype.toISOString
toISOString(t) ==
  PadDigits(t.y, 4) \o <<"-">> \o PadDigits(t.m, 2) \o <<"-">> \o PadDigits(t.d, 2)
    \o <<"T">> \o PadDigits(t.ms \div 3600000, 2)
    \o <<":">> \o PadDigits((t.ms \div 60000) % 60, 2)
    \o <<":">> \o PadDigits((t.ms \div 1000) % 60, 2)
    \o <<".">> \o PadDigits(t.ms % 1000, 3) \o <<"Z">>

\* the characters of a JSON string literal
RECURSIVE JsonEscape(_)
JsonEscape(str) ==
  IF str = <<>> THEN <<>>
  ELSE (IF Head(str) \in {"\"", "\\"} THEN <<"\\", Head(str)>>
        ELSE IF Head(str) = "\t" THEN <<"\\", "t">>
        ELSE IF Head(str) = "\n" THEN <<"\\", "n">>
        ELSE <<Head(str)>>) \o JsonEscape(Tail(str))

JsonQuote(str) == <<"\"">> \o JsonEscape(str) \o <<"\"">>

JsonValue(x) ==
  CASE x.t = "string" -> JsonQuote(x.v)
    [] x.t = "number" -> DigitsOf(x.v)
    [] x.t = "boolean" -> IF x.v THEN <<"t", "r", "u", "e">> ELSE <<"f", "a", "l", "s", "e">>
    [] x.t = "date" -> IF isValid(x.v) THEN JsonQuote(toISOString(x.v))
                       ELSE <<"n", "u", "l", "l">>
    [] OTHER -> <<"n", "u", "l", "l">>

RECURSIVE JsonMembers(_, _)
JsonMembers(obj, keys) ==
  IF keys = <<>> THEN <<>>
  ELSE (IF Head(keys) \in DOMAIN obj.v /\ obj.v[Head(keys)] # Undef
        THEN <<[key |-> Head(keys), text |-> JsonValue(obj.v[Head(keys)])]>>
        ELSE <<>>) \o JsonMembers(obj, Tail(keys))

(***************************************************************************)
(* handleFormSubmit.  fault names the platform call that throws during     *)
(* this run ("none" when none does) and thrown the error it throws.  The   *)
(* result tells what the run did and the two notification states after it. *)
(***************************************************************************)
SecurityMessage ==
  <<"Security error: Cannot download file due to browser restrictions.">>
QuotaMessage ==
  <<"Storage quota exceeded. Please free up space and try again.">>
FailedMessage(message) == <<"Failed to download the form: ", message>>
UnexpectedMessage == <<"An unexpected error occurred. Please try again.">>

\* the catch block: the message set for a caught error
DownloadErrorMessage(error) ==
  IF error.isError
  THEN IF error.name = "SecurityError" THEN SecurityMessage
       ELSE IF error.name = "QuotaExceededError" THEN QuotaMessage
       ELSE FailedMessage(error.message)
  ELSE UnexpectedMessage

\* the steps of the try block in their order; a fault at a step keeps the
\* later steps from running
ExportSteps ==
  <<"createObjectURL", "appendChild", "click", "removeChild", "revokeObjectURL",
    "setShowSuccess">>

StepIndex(step) == CHOOSE i \in 1..Len(ExportSteps) : ExportSteps[i] = step

\* the step ran to its end
Completed(step, fault) ==
  fault = "none" \/ StepIndex(step) < StepIndex(fault)

\* handleFormSubmit that shows the success notification before the download
handleFormSubmit_SuccessFirst(formData, fault, thrown, clock, success, message) ==
  LET sanitized == sanitizeFormData(Obj(formData))
      failure == IF sanitized.kind = "throw" THEN sanitized.error
                 ELSE IF fault # "none" THEN thrown ELSE NoThrow
      ran(step) == sanitized.kind = "return" /\ Completed(step, fault)
  IN [sanitizeRuns |-> 1,
      urlCreated |-> ran("createObjectURL"),
      urlRevoked |-> ran("revokeObjectURL"),
      downloaded |-> IF ran("click")
                     THEN JsonMembers(sanitized.value, FormKeys) ELSE NoContent,
      filename |-> IF ran("click")
                   THEN <<"employment-form-", SubSeq(toISOString(clock), 1, 10), ".json">>
                   ELSE <<>>,
      caught |-> failure,
      escaped |-> FALSE,
      logged |-> failure # NoThrow,
      showSuccess |-> IF sanitized.kind = "return" THEN TRUE ELSE success,
      downloadError |-> IF failure # NoThrow THEN DownloadErrorMessage(failure)
                        ELSE message]

handleFormSubmit(formData, fault, thrown, clock, success, message) ==
  LET sanitized == sanitizeFormData(Obj(formData))
      \* the error that reaches the catch block, NoThrow when none is thrown
      failure == IF sanitized.kind = "throw" THEN sanitized.error
                 ELSE IF fault # "none" THEN thrown ELSE NoThrow
      ran(step) == sanitized.kind = "return" /\ Completed(step, fault)
  IN [sanitizeRuns |-> 1,
      urlCreated |-> ran("createObjectURL"),
      urlRevoked |-> ran("revokeObjectURL"),
      downloaded |-> IF ran("click")
                     THEN JsonMembers(sanitized.value, FormKeys) ELSE NoContent,
      filename |-> IF ran("click")
                   THEN <<"employment-form-", SubSeq(toISOString(clock), 1, 10), ".json">>
                   ELSE <<>>,
      caught |-> failure,
      escaped |-> FALSE,          \* the catch block has no throw
      logged |-> failure # NoThrow,
      showSuccess |-> IF ran("setShowSuccess") THEN TRUE ELSE success,
      downloadError |-> IF failure # NoThrow THEN DownloadErrorMessage(failure)
                        ELSE message]

\* the calls of the try block after sanitizeFormData that the platform may
\* make throw, and the errors it throws
Faults == {"none", "createObjectURL", "appendChild", "click", "removeChild"}

ThrownErrors ==
  {[isError |-> TRUE, name |-> "SecurityError", message |-> "denied"],
   [isError |-> TRUE, name |-> "QuotaExceededError", message |-> "full"],
   [isError |-> TRUE, name |-> "TypeError", message |-> "failed"]}

\* a submit that calls the handler without running the resolver
Submit_NoValidation(fault, thrown) ==
  /\ mounted
  /\ submitCount < MaxSubmits
  /\ fault = "none" => thrown = CHOOSE e \in ThrownErrors : TRUE
  /\ LET result == handleFormSubmit(SchemaOutput(values), fault, thrown, ClockAt(now),
                                     showSuccess, downloadError)
     IN /\ errors' = {}
        /\ submitLog' = result
        /\ sanitizeCalls' = sanitizeCalls + result.sanitizeRuns
        /\ showSuccess' = result.showSuccess
        /\ downloadError' = result.downloadError
  /\ submitCount' = submitCount + 1
  /\ UNCHANGED <<mounted, now, defaultCurrency, values, totalIncome, debounce,
                 calcRuns, lastRunTime, lastEditTime, lastChangeTime, utilVars>>

\* the submit event of the form: handleSubmit(onSubmit) runs the resolver
\* on the current values and calls handleFormSubmit with the parsed data
\* only when it reports no issue
Submit(fault, thrown) ==
  /\ mounted
  /\ submitCount < MaxSubmits
  /\ fault = "none" => thrown = CHOOSE e \in ThrownErrors : TRUE
  /\ LET issues == SchemaIssues(values, ClockAt(now))
         result == IF issues = {}
                   THEN handleFormSubmit(SchemaOutput(values), fault, thrown, ClockAt(now),
                                         showSuccess, downloadError)
                   ELSE Rejected(showSuccess, downloadError)
     IN /\ errors' = issues
        /\ submitLog' = result
        /\ sanitizeCalls' = sanitizeCalls + result.sanitizeRuns
        /\ showSuccess' = result.showSuccess
        /\ downloadError' = result.downloadError
  /\ submitCount' = submitCount + 1
  /\ UNCHANGED <<mounted, now, defaultCurrency, values, totalIncome, debounce,
                 calcRuns, lastRunTime, lastEditTime, lastChangeTime, utilVars>>

NameChoices == {<<>>, <<"a">>, <<" ", "<", "&">>}
NoteChoices == {<<>>, <<"'", "/">>}

\* a TextField that puts the typed text behind the text it holds
EditEmployerName_Append(text) ==
  /\ mounted
  /\ values.employerName # Str(text)
  /\ values' = [values EXCEPT !.employerName = Str(values.employerName.v \o text)]
  /\ UNCHANGED <<mounted, now, defaultCurrency, errors, totalIncome, debounce,
                 showSuccess, downloadError, obsVars, utilVars>>

\* TextField: the input writes the typed text
EditEmployerName(text) ==
  /\ mounted
  /\ values.employerName # Str(text)
  /\ values' = [values EXCEPT !.employerName = Str(text)]
  /\ UNCHANGED <<mounted, now, defaultCurrency, errors, totalIncome, debounce,
                 showSuccess, downloadError, obsVars, utilVars>>

\* TextareaField: the input writes the typed text
EditNotes(text) ==
  /\ mounted
  /\ values.notes # Str(text)
  /\ values' = [values EXCEPT !.notes = Str(text)]
  /\ UNCHANGED <<mounted, now, defaultCurrency, errors, totalIncome, debounce,
                 showSuccess, downloadError, obsVars, utilVars>>

\* onClose of the success Snackbar
CloseSuccess ==
  /\ mounted
  /\ showSuccess
  /\ showSuccess' = FALSE
  /\ UNCHANGED <<mounted, now, defaultCurrency, values, errors, totalIncome, debounce,
                 downloadError, obsVars, utilVars>>

\* onClose of the error Snackbar
CloseError ==
  /\ mounted
  /\ downloadError # NoMessage
  /\ downloadError' = NoMessage
  /\ UNCHANGED <<mounted, now, defaultCurrency, values, errors, totalIncome, debounce,
                 showSuccess, obsVars, utilVars>>

NextSubmit ==
  \/ \E text \in NameChoices : EditEmployerName(text)
  \/ \E text \in NoteChoices : EditNotes(text)
  \/ \E raw \in RawIncomes : EditIncome(raw)
  \/ \E picked \in PickedStartDates : EditStartDate(picked)
  \/ \E fault \in Faults, thrown \in ThrownErrors : Submit(fault, thrown)
  \/ handleFormReset
  \/ CloseSuccess
  \/ CloseError

SpecSubmit == Init /\ [][NextSubmit]_vars

(***************************************************************************)
(* Harness for the utility functions: the argument is drawn in the initial *)
(* state, one step applies the function, and for sanitizeString a second   *)
(* step applies it again to its own result.                                *)
(***************************************************************************)
NonStrings ==
  {Null, Undef, Num(0), Num(123), Bool(TRUE), Bool(FALSE),
   Obj(EmptyObj), Obj([k \in {"a"} |-> Str(<<"<">>)])}

SanitizeInputs == {Str(s) : s \in Strings} \cup NonStrings

NotCalled == <<"?">>

InitSanitize ==
  /\ phase = "input"
  /\ sArg \in SanitizeInputs
  /\ sRet = NotCalled
  /\ sRet2 = NotCalled
  /\ dArg = Undef
  /\ dRet = Return(Undef)
  /\ callArgs = Undef
  /\ callResult = Undef
  /\ defaultCurrency = USD
  /\ FormInit

CallSanitizeString ==
  /\ phase = "input"
  /\ sRet' = sanitizeString(sArg)
  /\ phase' = "once"
  /\ UNCHANGED <<sArg, sRet2, dArg, dRet, callArgs, callResult, formVars, obsVars>>

CallSanitizeStringAgain ==
  /\ phase = "once"
  /\ sRet2' = sanitizeString(Str(sRet))
  /\ phase' = "twice"
  /\ UNCHANGED <<sArg, sRet, dArg, dRet, callArgs, callResult, formVars, obsVars>>

NextSanitize == CallSanitizeString \/ CallSanitizeStringAgain

SpecSanitize == InitSanitize /\ [][NextSanitize]_vars

(***************************************************************************)
(* Objects handed to sanitizeFormData: key "a" holds a leaf, key "b" a     *)
(* leaf or a nested object, down to MaxDepth levels; and the arguments     *)
(* that are not objects.                                                   *)
(***************************************************************************)
LeafValues ==
  {Str(<<"<", "&">>), Num(5), Bool(TRUE), Null, Undef, DateV(Moment(2023, 1, 1, 0))}

RECURSIVE ObjectsOfDepth(_)
ObjectsOfDepth(n) ==
  IF n = 0 THEN {}
  ELSE LET inner == LeafValues \cup ObjectsOfDepth(n - 1)
       IN {Obj(EmptyObj)}
            \cup {Obj([k \in {"a"} |-> x]) : x \in LeafValues}
            \cup {Obj([k \in {"b"} |-> y]) : y \in inner}
            \cup {Obj([k \in {"a", "b"} |-> IF k = "a" THEN x ELSE y]) :
                    x \in LeafValues, y \in inner}

\* arrays as values of a key: empty, of strings, of an object that holds a
\* string, and of an array
ArrayValues ==
  {Arr(<<>>),
   Arr(<<Str(<<"<", "&">>), Num(5)>>),
   Arr(<<Obj([k \in {"a"} |-> Str(<<"<">>)])>>),
   Arr(<<Arr(<<Str(<<"/">>)>>)>>)}

\* objects with an array under a key, at the top and one level down, beside
\* a string or alone
ArrayObjects ==
  {Obj([k \in {"a"} |-> x]) : x \in ArrayValues}
    \cup {Obj([k \in {"a", "b"} |-> IF k = "a" THEN Str(<<"<", "&">>) ELSE x]) :
            x \in ArrayValues}
    \cup {Obj([k \in {"b"} |-> Obj([j \in {"a"} |-> x])]) : x \in ArrayValues}

FormDataInputs ==
  ObjectsOfDepth(MaxDepth)
    \cup ArrayObjects
    \cup ArrayValues
    \cup {Null, Undef, Str(<<>>), Str(<<"a">>), Num(0), Num(5), Bool(FALSE), Bool(TRUE), DateV(Moment(2023, 1, 1, 0))}

InitFormData ==
  /\ phase = "input"
  /\ dArg \in FormDataInputs
  /\ dRet = Return(Undef)
  /\ sArg = Undef
  /\ sRet = NotCalled
  /\ sRet2 = NotCalled
  /\ callArgs = Undef
  /\ callResult = Undef
  /\ defaultCurrency = USD
  /\ FormInit

CallSanitizeFormData ==
  /\ phase = "input"
  /\ dRet' = sanitizeFormData(dArg)
  /\ phase' = "once"
  /\ UNCHANGED <<sArg, sRet, sRet2, dArg, callArgs, callResult, formVars, obsVars>>

NextFormData == CallSanitizeFormData

SpecFormData == InitFormData /\ [][NextFormData]_vars

(***************************************************************************)
(* Calls of calculateTotalIncome.  The incomes are numbers of every kind   *)
(* and values that are no numbers; the start is null, an invalid Date or a *)
(* date; the end is null, an invalid Date, a date before or after the      *)
(* start, or the start moved on by whole years.  The call is made at       *)
(* MountMoment.                                                            *)
(***************************************************************************)
CalcIncomes ==
  {Num(-5), Num(0), Num(1), Num(50000), Num(60000), NaN, PosInfinity, NegInfinity,
   Str(<<"5">>), Undef, Null}

CalcStarts ==
  {Null, DateV(InvalidTime),
   DateV(Moment(2023, 1, 1, 0)),
   DateV(Moment(2020, 2, 29, 12 * 60 * 60 * 1000)),
   DateV(Moment(2023, 6, 15, 1500)),
   DateV(Moment(2025, 1, 1, 0))}

\* the moment n calendar years after t, where that day exists
YearsAfter(t, n) ==
  IF t.d <= daysInMonth(t.y + n, t.m) THEN {DateV(Moment(t.y + n, t.m, t.d, t.ms))} ELSE {}

CalcEnds(startDate) ==
  {Null, DateV(InvalidTime),
   DateV(Moment(2022, 12, 31, MsPerDay - 1)),
   DateV(Moment(2023, 7, 1, 0)),
   DateV(Moment(2024, 2, 29, 0))}
    \cup (IF startDate.t = "date" /\ isValid(startDate.v)
          THEN UNION {YearsAfter(startDate.v, n) : n \in 0..MaxYears}
          ELSE {})

InitCalc ==
  /\ phase = "input"
  /\ \E annualIncome \in CalcIncomes, startDate \in CalcStarts :
       \E endDate \in CalcEnds(startDate) :
         callArgs = [fn |-> "calculateTotalIncome", annualIncome |-> annualIncome,
                     startDate |-> startDate, endDate |-> endDate]
  /\ callResult = Undef
  /\ sArg = Undef
  /\ sRet = NotCalled
  /\ sRet2 = NotCalled
  /\ dArg = Undef
  /\ dRet = Return(Undef)
  /\ defaultCurrency = USD
  /\ FormInit

CallCalculateTotalIncome ==
  /\ phase = "input"
  /\ callArgs.fn = "calculateTotalIncome"
  /\ callResult' = calculateTotalIncome(callArgs.annualIncome, callArgs.startDate,
                                        callArgs.endDate, MountMoment)
  /\ phase' = "once"
  /\ UNCHANGED <<sArg, sRet, sRet2, dArg, dRet, callArgs, formVars, obsVars>>

NextCalc == CallCalculateTotalIncome

SpecCalc == InitCalc /\ [][NextCalc]_vars

(***************************************************************************)
(* Calls of employmentSchema and of the two standalone validators on one   *)
(* employer name and one income.  The names are runs of a letter of the    *)
(* lengths around the two limits, with up to MaxPad blanks before and      *)
(* after, and short names with the characters the pattern allows and       *)
(* forbids; the other fields of the form data are valid.                   *)
(***************************************************************************)
Repeat(c, n) == [i \in 1..n |-> c]

NameInputs ==
  {Repeat(" ", i) \o Repeat("a", n) \o Repeat(" ", j) :
     i \in 0..MaxPad, j \in 0..MaxPad, n \in {0, 1, 2, 98, 99, 100, 101}}
    \cup {<<"O", "'", "N", " ", "&", " ", "C", "o", ".">>,
          <<"T", "-", "C", "o", " ", "(", "2", "0", "2", "3", ")", ",">>,
          <<"<", "b", ">">>, <<"a", ">">>, <<"a", "<">>, <<"a", ";">>, <<"a", "\"", "b">>,
          <<"a", "/", "b">>, <<"a", "\t", "b">>, <<"A", "9">>}

IncomeInputs ==
  {Num(-1), Num(0), Num(1), Num(2), Num(50000), Num(999999999), Num(1000000000),
   Num(1000000001), NaN, PosInfinity, NegInfinity}

\* form data that is valid but for the name and the income
FormDataWith(name, income) ==
  [employerName |-> Str(name),
   currency |-> Str(USD),
   annualGrossIncome |-> income,
   employmentStartDate |-> DateV(Moment(2023, 1, 1, 0)),
   employmentEndDate |-> Undef,
   notes |-> Str(<<>>)]

InitValidate ==
  /\ phase = "input"
  /\ \E name \in NameInputs, income \in IncomeInputs :
       callArgs = [fn |-> "validate", employerName |-> name, annualGrossIncome |-> income]
  /\ callResult = Undef
  /\ sArg = Undef
  /\ sRet = NotCalled
  /\ sRet2 = NotCalled
  /\ dArg = Undef
  /\ dRet = Return(Undef)
  /\ defaultCurrency = USD
  /\ FormInit

\* the three checks applied to the same name and income
CallValidators ==
  /\ phase = "input"
  /\ callArgs.fn = "validate"
  /\ LET data == FormDataWith(callArgs.employerName, callArgs.annualGrossIncome)
     IN callResult' =
          [schemaIssues |-> SchemaIssues(data, MountMoment),
           schemaName |-> SchemaOutput(data).employerName.v,
           validateEmployerName |-> validateEmployerName(callArgs.employerName),
           validateIncome |-> validateIncome(callArgs.annualGrossIncome)]
  /\ phase' = "once"
  /\ UNCHANGED <<sArg, sRet, sRet2, dArg, dRet, callArgs, formVars, obsVars>>

NextValidate == CallValidators

SpecValidate == InitValidate /\ [][NextValidate]_vars

(***************************************************************************)
(* employmentSchema applied to records that differ in their two dates.     *)
(***************************************************************************)

\* the moment one millisecond after / before the moment at
MsAfter(at) == [at EXCEPT !.ms = at.ms + 1]
MsBefore(at) == [at EXCEPT !.ms = at.ms - 1]

\* start dates: missing, null, an invalid Date, and dates around the clock
SchemaStarts(clock) ==
  {Undef, Null, DateV(InvalidTime),
   DateV(Moment(2023, 1, 1, 1000)), DateV(MsBefore(clock)), DateV(clock),
   DateV(MsAfter(clock)), DateV(Moment(2025, 1, 1, 1000))}

\* end dates: missing, an invalid Date, and dates around the start date
SchemaEnds(start) ==
  {Undef, DateV(InvalidTime), DateV(Moment(2023, 6, 1, 0))} \cup
  (IF IsDate(start)
   THEN {DateV(MsBefore(start.v)), start, DateV(MsAfter(start.v)),
         DateV([start.v EXCEPT !.y = start.v.y - 1]),
         DateV([start.v EXCEPT !.y = start.v.y + 1])}
   ELSE {})

\* form data that is valid but for the two dates
FormDataDates(start, end) ==
  [employerName |-> Str(<<"A", "c", "m", "e">>),
   currency |-> Str(USD),
   annualGrossIncome |-> Num(50000),
   employmentStartDate |-> start,
   employmentEndDate |-> end,
   notes |-> Str(<<>>)]

InitDates ==
  /\ phase = "input"
  /\ \E clock \in {MountMoment, ClockAt(TickMs)} :
       \E start \in SchemaStarts(clock) :
         \E end \in SchemaEnds(start) :
           callArgs = [fn |-> "employmentSchema", clock |-> clock,
                       employmentStartDate |-> start, employmentEndDate |-> end]
  /\ callResult = Undef
  /\ sArg = Undef
  /\ sRet = NotCalled
  /\ sRet2 = NotCalled
  /\ dArg = Undef
  /\ dRet = Return(Undef)
  /\ defaultCurrency = USD
  /\ FormInit

\* employmentSchema.safeParse(data) at the moment callArgs.clock
CallEmploymentSchema ==
  /\ phase = "input"
  /\ callArgs.fn = "employmentSchema"
  /\ callResult' =
       [schemaIssues |->
          SchemaIssues(FormDataDates(callArgs.employmentStartDate,
                                     callArgs.employmentEndDate),
                       callArgs.clock)]
  /\ phase' = "once"
  /\ UNCHANGED <<sArg, sRet, sRet2, dArg, dRet, callArgs, formVars, obsVars>>

NextDates == CallEmploymentSchema

SpecDates == InitDates /\ [][NextDates]_vars

(***************************************************************************)
(* FormRenderer: the fields of a section handed to renderField.            *)
(***************************************************************************)

\* FieldType
FieldTypes == {"text", "number", "currency", "date", "textarea", "select"}

\* renderField: the element returned and what console.warn was called with
renderField(config) ==
  LET Element(component) ==
        [element |-> [component |-> component, key |-> config.name, config |-> config],
         warnings |-> <<>>]
  IN CASE config.type = "text" -> Element("TextField")
       [] config.type = "currency" -> Element("CurrencyField")
       [] config.type = "date" -> Element("DateField")
       [] config.type = "textarea" -> Element("TextareaField")
       [] config.type = "select" -> Element("SelectField")
       [] OTHER -> [element |-> Null,
                    warnings |-> <<"Unknown field type: " \o config.type>>]

\* renderFormSection that leaves out the fields renderField returns null for
renderFormSection_SkipNull(fields) ==
  LET shown == SelectSeq(fields, LAMBDA f : renderField(f).element # Null)
      unknown == SelectSeq(fields, LAMBDA f : renderField(f).element = Null)
  IN [items |-> [i \in 1..Len(shown) |->
                   [key |-> shown[i].name, child |-> renderField(shown[i]).element]],
      warnings |-> [i \in 1..Len(unknown) |-> renderField(unknown[i]).warnings[1]]]

\* renderFormSection, group.fields.map: one Grid item per field, in order,
\* holding what renderField returns; the warnings in the order they are made
renderFormSection(fields) ==
  LET unknown == SelectSeq(fields, LAMBDA f : renderField(f).warnings # <<>>)
  IN [items |-> [i \in 1..Len(fields) |->
                   [key |-> fields[i].name, child |-> renderField(fields[i]).element]],
      warnings |-> [i \in 1..Len(unknown) |-> renderField(unknown[i]).warnings[1]]]

\* the most fields in the group of a section
MaxFields == 3

\* a group of fields with distinct names; two of the tags are not field types
InitRender ==
  /\ phase = "input"
  /\ \E n \in 1..MaxFields :
       \E tags \in [1..n -> FieldTypes \cup {"checkbox", "radio"}] :
         callArgs = [fn |-> "renderFormSection",
                     fields |-> [i \in 1..n |->
                                   [name |-> <<"f1", "f2", "f3", "f4">>[i],
                                    type |-> tags[i]]]]
  /\ callResult = Undef
  /\ sArg = Undef
  /\ sRet = NotCalled
  /\ sRet2 = NotCalled
  /\ dArg = Undef
  /\ dRet = Return(Undef)
  /\ defaultCurrency = USD
  /\ FormInit

CallRenderFormSection ==
  /\ phase = "input"
  /\ callArgs.fn = "renderFormSection"
  /\ callResult' = Return(renderFormSection(callArgs.fields))
  /\ phase' = "once"
  /\ UNCHANGED <<sArg, sRet, sRet2, dArg, dRet, callArgs, formVars, obsVars>>

NextRender == CallRenderFormSection

SpecRender == InitRender /\ [][NextRender]_vars

(***************************************************************************)
(* CurrencyField inside a form: values.annualGrossIncome is field.value,   *)
(* values.currency the watched currency, callArgs the text of the last     *)
(* change event and isFocused, callResult the text the input shows.        *)
(***************************************************************************)

\* a sequence of characters as one string
RECURSIVE Join(_)
Join(chars) == IF chars = <<>> THEN "" ELSE Head(chars) \o Join(Tail(chars))

\* the digits of an integer in groups of three, as currency.js separates them
RECURSIVE GroupDigits(_)
GroupDigits(numeral) ==
  IF Len(numeral) <= 3 THEN numeral
  ELSE GroupDigits(SubSeq(numeral, 1, Len(numeral) - 3)) \o <<",">> \o
       SubSeq(numeral, Len(numeral) - 2, Len(numeral))

\* formatValue: '' for a falsy value, else currency(value, {symbol,
\* precision: 2, pattern: '! #'}).format().  currency.js formats
\* round(value * 100) / 100, which is the integer value itself, with cents 00,
\* below 2 ^ 48, from 2 ^ 53 to 10 ^ 16 and for 10 ^ 15 - 1: the values of
\* RawInputs.  Between 2 ^ 48 and 2 ^ 53 the quotient can miss the integer.
formatValue(value, symbol) ==
  IF ~IsBig(value) /\ Falsy(value) THEN ""
  ELSE symbol \o " " \o Join(GroupDigits(NumberToString(value))) \o ".00"

\* the value prop of the input
DisplayedText(isFocused, fieldValue, selectedCurrency) ==
  IF isFocused THEN Join(FocusedText(fieldValue))
  ELSE formatValue(fieldValue, SymbolOf(selectedCurrency))

\* texts of change events: empty, zeros, zeros in front, other characters
\* between and around the digits, no digit at all, 15 and 16 digits
RawInputs ==
  {<<>>, <<"0">>, <<"0", "0", "7">>, <<"1", "2", "a", "3">>, <<"a", "b", "c">>,
   <<"$", " ", "1", ",", "2", "0", "0", ".", "5", "0">>,
   <<"-", "4", "2">>,
   <<"9", "9", "9", "9", "9", "9", "9", "9", "9", "9", "9", "9", "9", "9", "9">>,
   <<"9", "0", "0", "7", "1", "9", "9", "2", "5", "4", "7", "4", "0", "9", "9", "3">>,
   <<"9", "0", "0", "7", "1", "9", "9", "2", "5", "4", "7", "4", "0", "9", "9", "9">>}

InitCurrencyField ==
  /\ phase = "mount"
  /\ callArgs = [fn |-> "CurrencyField", raw |-> <<>>, isFocused |-> FALSE]
  /\ callResult = ""
  /\ sArg = Undef
  /\ sRet = NotCalled
  /\ sRet2 = NotCalled
  /\ dArg = Undef
  /\ dRet = Return(Undef)
  /\ defaultCurrency = USD
  /\ FormInit

\* a change event with the text raw, which is not the text shown
FieldChange(raw) ==
  /\ callArgs.fn = "CurrencyField"
  /\ Join(raw) # callResult
  /\ values' = [values EXCEPT !.annualGrossIncome = CurrencyFieldValue(raw)]
  /\ callArgs' = [callArgs EXCEPT !.raw = raw]
  /\ callResult' = DisplayedText(callArgs.isFocused, values'.annualGrossIncome,
                                 values.currency.v)
  /\ phase' = "change"
  /\ UNCHANGED <<sArg, sRet, sRet2, dArg, dRet, mounted, now, defaultCurrency,
                 errors, totalIncome, debounce, showSuccess, downloadError, obsVars>>

\* onFocus: setIsFocused(true)
FieldFocus ==
  /\ callArgs.fn = "CurrencyField"
  /\ ~callArgs.isFocused
  /\ callArgs' = [callArgs EXCEPT !.isFocused = TRUE]
  /\ callResult' = DisplayedText(TRUE, values.annualGrossIncome, values.currency.v)
  /\ phase' = "focus"
  /\ UNCHANGED <<sArg, sRet, sRet2, dArg, dRet, formVars, obsVars>>

\* onBlur: setIsFocused(false)
FieldBlur ==
  /\ callArgs.fn = "CurrencyField"
  /\ callArgs.isFocused
  /\ callArgs' = [callArgs EXCEPT !.isFocused = FALSE]
  /\ callResult' = DisplayedText(FALSE, values.annualGrossIncome, values.currency.v)
  /\ phase' = "blur"
  /\ UNCHANGED <<sArg, sRet, sRet2, dArg, dRet, formVars, obsVars>>

\* another currency is selected in the form: useWatch renders the field again
SelectCurrency(code) ==
  /\ callArgs.fn = "CurrencyField"
  /\ Str(code) # values.currency
  /\ values' = [values EXCEPT !.currency = Str(code)]
  /\ callResult' = DisplayedText(callArgs.isFocused, values.annualGrossIncome, code)
  /\ phase' = "select"
  /\ UNCHANGED <<sArg, sRet, sRet2, dArg, dRet, callArgs, mounted, now,
                 defaultCurrency, errors, totalIncome, debounce, showSuccess,
                 downloadError, obsVars>>

NextCurrencyField ==
  \/ \E raw \in RawInputs : FieldChange(raw)
  \/ FieldFocus
  \/ FieldBlur
  \/ \E code \in {USD, EUR, INR} : SelectCurrency(code)

SpecCurrencyField == InitCurrencyField /\ [][NextCurrencyField]_vars

(***************************************************************************)
(* Calls of getDefaultCurrency: navigator.language is a language with or   *)
(* without a region, or the empty string.                                  *)
(***************************************************************************)
LocaleInputs ==
  {Locale(lang, region) :
     lang \in {"en", "de", "fr", "es", "it", "ja", "pt", "EN"},
     region \in {"", "US", "GB", "DE", "FR", "ES", "IT", "IN", "AT", "CA", "JP"}}
  \cup {Locale("", "")}

InitLocale ==
  /\ phase = "input"
  /\ \E locale \in LocaleInputs :
       callArgs = [fn |-> "getDefaultCurrency", locale |-> locale]
  /\ callResult = Undef
  /\ sArg = Undef
  /\ sRet = NotCalled
  /\ sRet2 = NotCalled
  /\ dArg = Undef
  /\ dRet = Return(Undef)
  /\ defaultCurrency = USD
  /\ FormInit

CallGetDefaultCurrency ==
  /\ phase = "input"
  /\ callArgs.fn = "getDefaultCurrency"
  /\ callResult' = Str(getDefaultCurrency(callArgs.locale))
  /\ phase' = "once"
  /\ UNCHANGED <<sArg, sRet, sRet2, dArg, dRet, callArgs, formVars, obsVars>>

NextLocale == CallGetDefaultCurrency

SpecLocale == InitLocale /\ [][NextLocale]_vars

(***************************************************************************)
(* Properties of sanitizeString.                                           *)
(***************************************************************************)
EscapeChar(c) ==
  CASE c = "&" -> EntAmp
    [] c = "<" -> EntLt
    [] c = ">" -> EntGt
    [] c = "\"" -> EntQuot
    [] c = "'" -> EntApos
    [] c = "/" -> EntSlash
    [] OTHER -> <<c>>

\* every character of s replaced by its entity at once, in one pass
RECURSIVE EscapeEach(_)
EscapeEach(s) ==
  IF s = <<>> THEN <<>> ELSE EscapeChar(Head(s)) \o EscapeEach(Tail(s))

Entities == {EntAmp, EntLt, EntGt, EntQuot, EntApos, EntSlash}

\* an entity e starts at position i of s
EntityAt(s, i, e) ==
  /\ i + Len(e) - 1 <= Len(s)
  /\ SubSeq(s, i, i + Len(e) - 1) = e

HasSpecial(s) == \E i \in 1..Len(s) : s[i] \in SpecialChars

\* C7: for a string s, sanitizeString(s) is s with each of & < > " ' /
\* replaced by its entity and every other character kept in place; the
\* result holds none of < > " ' / and every & of it starts one of the six
\* entities.
C7_EscapesEachCharOnce ==
  (phase # "input" /\ sArg.t = "string") =>
     /\ sRet = EscapeEach(sArg.v)
     /\ \A i \in 1..Len(sRet) : sRet[i] \notin (SpecialChars \ {"&"})
     /\ \A i \in 1..Len(sRet) :
          sRet[i] = "&" => \E e \in Entities : EntityAt(sRet, i, e)

C7_Witness ==
  /\ phase = "once"
  /\ sArg = Str(<<"<", "&", "/">>)
  /\ sRet = EntLt \o EntAmp \o EntSlash

\* C8: sanitizeString(sanitizeString(s)) = sanitizeString(s) exactly for the
\* strings s that hold none of the six characters; otherwise the second
\* application escapes the & of every entity of the first again.
C8_IdempotentIffNoSpecial ==
  (phase = "twice" /\ sArg.t = "string") =>
     /\ (sRet2 = sRet) <=> ~HasSpecial(sArg.v)
     /\ sRet2 = EscapeEach(sRet)

C8_Witness ==
  /\ phase = "twice"
  /\ sArg = Str(<<"a", "<">>)
  /\ sRet = <<"a">> \o EntLt
  /\ sRet2 = <<"a">> \o EntAmp \o <<"l", "t", ";">>

\* C9: for every argument that is not a string, sanitizeString returns the
\* empty string.
C9_NonStringGivesEmpty ==
  (phase # "input" /\ sArg.t # "string") => sRet = <<>>

C9_Witness ==
  /\ phase = "once"
  /\ sArg = Num(123)
  /\ sRet = <<>>

(***************************************************************************)
(* Properties of sanitizeFormData.                                         *)
(***************************************************************************)
\* r is d with every string escaped, every number, boolean, null, undefined
\* and Date kept, and every nested plain object treated the same way
RECURSIVE SanitizedCopyOf(_, _)
SanitizedCopyOf(r, d) ==
  /\ r.t = "object"
  /\ DOMAIN r.v = DOMAIN d.v
  /\ \A k \in DOMAIN d.v :
       LET x == d.v[k]
           y == r.v[k]
       IN CASE x.t = "string" -> y = Str(EscapeEach(x.v))
            [] x.t \in {"number", "boolean", "null", "undefined", "date"} -> y = x
            [] x.t = "object" -> SanitizedCopyOf(y, x)
            [] OTHER -> TRUE

\* C10: for a non-null plain object d, sanitizeFormData(d) returns an object
\* with exactly the keys of d, strings escaped, numbers, booleans, null,
\* undefined and Dates unchanged, nested objects sanitized at every depth,
\* and d is left as it was.
C10_SanitizedDeepCopy ==
  [][(phase = "input" /\ phase' = "once" /\ dArg.t = "object") =>
        /\ dRet'.kind = "return"
        /\ SanitizedCopyOf(dRet'.value, dArg)
        /\ dArg' = dArg]_vars

C10_Witness ==
  /\ phase = "once"
  /\ dArg = Obj([k \in {"a", "b"} |->
               IF k = "a" THEN DateV(Moment(2023, 1, 1, 0))
               ELSE Obj([j \in {"a", "b"} |->
                      IF j = "a" THEN Num(5)
                      ELSE Obj([i \in {"a"} |-> Str(<<"<", "&">>)])])])
  /\ dRet.kind = "return"
  /\ dRet.value.v["b"].v["b"].v["a"] = Str(EntLt \o EntAmp)
  /\ dRet.value.v["a"] = DateV(Moment(2023, 1, 1, 0))

\* every array under a key of d, at every depth of nested plain objects, is
\* under the same key of r with the same elements
RECURSIVE ArraysKept(_, _)
ArraysKept(r, d) ==
  /\ r.t = "object"
  /\ DOMAIN r.v = DOMAIN d.v
  /\ \A k \in DOMAIN d.v :
       CASE d.v[k].t = "array" -> r.v[k] = d.v[k]
         [] d.v[k].t = "object" -> ArraysKept(r.v[k], d.v[k])
         [] OTHER -> TRUE

C12_ThrowsOnNonObject ==
  (phase = "once" /\ dArg.t \in {"null", "undefined", "string", "number", "boolean"}) =>
     /\ dRet.kind = "throw"
     /\ dRet.error.isError
     /\ "value" \notin DOMAIN dRet

\* the call with null has thrown
C12_Witness ==
  /\ phase = "once"
  /\ dArg = Null
  /\ dRet = Throw(ErrorOf("Invalid data: Expected an object"))

(***************************************************************************)
(* Properties of calculateTotalIncome.                                     *)
(***************************************************************************)
\* a call of calculateTotalIncome has returned
Calculated == phase = "once" /\ callArgs.fn = "calculateTotalIncome"

\* the moment a is earlier than the moment b, by the calendar fields
Earlier(a, b) ==
  \/ a.y < b.y
  \/ a.y = b.y /\ a.m < b.m
  \/ a.y = b.y /\ a.m = b.m /\ a.d < b.d
  \/ a.y = b.y /\ a.m = b.m /\ a.d = b.d /\ a.ms < b.ms

ValidDate(x) == x.t = "date" /\ x.v # InvalidTime

\* C13: calculateTotalIncome returns 0 when start is null, when income is a
\* number that is 0 or less, and when the end (the moment of the call for a
\* null end) is strictly before start, whatever the other arguments are.
C13_ZeroCases ==
  Calculated =>
    LET income == callArgs.annualIncome
        start  == callArgs.startDate
        end    == IF callArgs.endDate = Null THEN DateV(MountMoment) ELSE callArgs.endDate
    IN /\ start = Null => callResult = Cents(0)
       /\ (income = NegInfinity \/ (income.t = "number" /\ income.v <= 0)) =>
            callResult = Cents(0)
       /\ (ValidDate(start) /\ ValidDate(end) /\ Earlier(end.v, start.v)) =>
            callResult = Cents(0)

\* a positive income over a span whose end is before its start gave 0
C13_Witness ==
  /\ Calculated
  /\ callArgs.annualIncome = Num(50000)
  /\ callArgs.startDate = DateV(Moment(2023, 6, 15, 1500))
  /\ callArgs.endDate = DateV(Moment(2022, 12, 31, MsPerDay - 1))
  /\ callResult = Cents(0)

\* C14: for an income that is NaN, an infinity or no number at all,
\* calculateTotalIncome returns 0, whatever the dates are.
C14_NonFiniteIncomeGivesZero ==
  (Calculated /\ callArgs.annualIncome.t # "number") => callResult = Cents(0)

C16_WholeYears ==
  Calculated =>
    \A n \in 0..MaxYears :
      LET income == callArgs.annualIncome
          start  == callArgs.startDate
      IN (/\ income.t = "number" /\ income.v > 0
          /\ ValidDate(start)
          /\ callArgs.endDate = DateV(Moment(start.v.y + n, start.v.m, start.v.d, start.v.ms))
          /\ ValidDate(callArgs.endDate)) =>
         callResult = Cents((income.v * n) * 100)

\* four years from a leap day to the next leap day, at noon
C16_Witness ==
  /\ Calculated
  /\ callArgs.annualIncome = Num(50000)
  /\ callArgs.startDate = DateV(Moment(2020, 2, 29, 12 * 60 * 60 * 1000))
  /\ callArgs.endDate = DateV(Moment(2024, 2, 29, 12 * 60 * 60 * 1000))
  /\ callResult = Cents(20000000)

(***************************************************************************)
(* Properties of the employer-name and income checks.                      *)
(***************************************************************************)
Validated == phase = "once" /\ callArgs.fn = "validate"

\* employmentSchema reports nothing for the employer name / for the income
SchemaAcceptsName == "employerName" \notin callResult.schemaIssues
SchemaAcceptsIncome == "annualGrossIncome" \notin callResult.schemaIssues

\* the number of blanks, tabs and line feeds at the start of a string
RECURSIVE LeadingBlanks(_)
LeadingBlanks(str) ==
  IF str # <<>> /\ Head(str) \in {" ", "\t", "\n"}
  THEN 1 + LeadingBlanks(Tail(str)) ELSE 0

Reversed(str) == [i \in 1..Len(str) |-> str[Len(str) + 1 - i]]

\* the length of a string without its surrounding whitespace
TrimmedLength(str) ==
  IF LeadingBlanks(str) = Len(str) THEN 0
  ELSE Len(str) - LeadingBlanks(str) - LeadingBlanks(Reversed(str))

\* a letter (a-z, A-Z), a digit, whitespace or one of - . , & ' ( )
AllowedInName(c) ==
  \/ c \in {"a", "b", "c", "d", "e", "f", "g", "h", "i", "j", "k", "l", "m", "n", "o",
             "p", "q", "r", "s", "t", "u", "v", "w", "x", "y", "z"}
  \/ c \in {"A", "B", "C", "D", "E", "F", "G", "H", "I", "J", "K", "L", "M", "N", "O",
             "P", "Q", "R", "S", "T", "U", "V", "W", "X", "Y", "Z"}
  \/ c \in {"0", "1", "2", "3", "4", "5", "6", "7", "8", "9"}
  \/ c \in {" ", "\t", "\n"}
  \/ c \in {"-", ".", ",", "&", "'", "(", ")"}

\* C17: employmentSchema accepts an employer name exactly when its length
\* without the surrounding whitespace is between 1 and 100.
C17_NameLengthAfterTrim ==
  Validated =>
    (SchemaAcceptsName <=>
       (TrimmedLength(callArgs.employerName) >= 1
          /\ TrimmedLength(callArgs.employerName) <= 100))

\* C18: a name employmentSchema accepts holds only characters of the
\* pattern, and on the names of 1 to 100 characters without surrounding
\* whitespace employmentSchema and validateEmployerName agree.
C18_PatternEnforcedInForm ==
  Validated =>
    LET name == callArgs.employerName IN
    /\ SchemaAcceptsName => \A i \in 1..Len(name) : AllowedInName(name[i])
    /\ (Len(name) >= 1 /\ Len(name) <= 100 /\ TrimmedLength(name) = Len(name)) =>
         (SchemaAcceptsName <=> callResult.validateEmployerName)

\* C19: validateEmployerName(name) is true exactly when name is not empty,
\* has at most 100 characters, blanks counted, and every character is a
\* letter (a-z, A-Z), a digit, whitespace or one of - . , & ' ( ).
C19_ValidateEmployerName ==
  Validated =>
    LET name == callArgs.employerName IN
    /\ callResult.validateEmployerName <=>
         (/\ Len(name) >= 1
          /\ Len(name) <= 100
          /\ \A i \in 1..Len(name) : AllowedInName(name[i]))
    /\ Len(name) > 100 => ~callResult.validateEmployerName
    /\ (\E i \in 1..Len(name) : name[i] \in {"<", ">"}) => ~callResult.validateEmployerName

\* a name of 101 characters, of which 99 are letters, was rejected
C19_Witness ==
  /\ Validated
  /\ callArgs.employerName = <<" ">> \o Repeat("a", 99) \o <<" ">>
  /\ ~callResult.validateEmployerName

\* C20: employmentSchema accepts an income exactly from 1 to 1,000,000,000
\* and validateIncome exactly from 0 to 1,000,000,000; what the schema
\* accepts validateIncome accepts, and on the whole numbers they differ at 0
\* only.
C20_IncomeRanges ==
  Validated =>
    LET income == callArgs.annualGrossIncome
        finite == income.t = "number"
    IN /\ SchemaAcceptsIncome <=> (finite /\ income.v >= 1 /\ income.v <= 1000000000)
       /\ callResult.validateIncome <=> (finite /\ income.v >= 0 /\ income.v <= 1000000000)
       /\ SchemaAcceptsIncome => callResult.validateIncome
       /\ (finite /\ SchemaAcceptsIncome # callResult.validateIncome) => income.v = 0

\* the income 0: refused by the schema, accepted by validateIncome
C20_Witness ==
  /\ Validated
  /\ callArgs.annualGrossIncome = Num(0)
  /\ ~SchemaAcceptsIncome
  /\ callResult.validateIncome

(***************************************************************************)
(* Properties of the two dates in employmentSchema.                        *)
(***************************************************************************)

Parsed == phase = "once" /\ callArgs.fn = "employmentSchema"

StartRejected == "employmentStartDate" \in callResult.schemaIssues

\* C21: employmentSchema rejects every record without employmentStartDate
\* and every record whose employmentStartDate is strictly later than the
\* moment of validation; a start date equal to or earlier than that moment
\* is never rejected by the start-date rule.
C21_StartDateRequiredNotFuture ==
  Parsed =>
    LET start == callArgs.employmentStartDate
    IN /\ start = Undef => StartRejected
       /\ ValidDate(start) /\ Earlier(callArgs.clock, start.v) => StartRejected
       /\ ValidDate(start) /\ ~Earlier(callArgs.clock, start.v) => ~StartRejected

\* a start date one millisecond in the future has been rejected
C21_Witness ==
  /\ Parsed
  /\ callArgs.employmentStartDate = DateV(MsAfter(callArgs.clock))
  /\ StartRejected

\* C22: for a record whose other fields are valid, a missing
\* employmentEndDate is accepted; a given end date is accepted exactly if it
\* is strictly after the start date; and the failure is reported under
\* employmentEndDate, never under employmentStartDate.
C22_EndAfterStart ==
  Parsed /\ ValidDate(callArgs.employmentStartDate)
         /\ ~Earlier(callArgs.clock, callArgs.employmentStartDate.v) =>
    LET start == callArgs.employmentStartDate
        end == callArgs.employmentEndDate
        issues == callResult.schemaIssues
    IN /\ end = Undef => issues = {}
       /\ ValidDate(end) => (issues = {} <=> Earlier(start.v, end.v))
       /\ issues \subseteq {"employmentEndDate"}

\* an end date equal to the start date has been rejected under employmentEndDate
C22_Witness ==
  /\ Parsed
  /\ ValidDate(callArgs.employmentStartDate)
  /\ ~Earlier(callArgs.clock, callArgs.employmentStartDate.v)
  /\ callArgs.employmentEndDate = callArgs.employmentStartDate
  /\ callResult.schemaIssues = {"employmentEndDate"}

(***************************************************************************)
(* Properties of renderField.                                              *)
(***************************************************************************)

Rendered == phase = "once" /\ callArgs.fn = "renderFormSection"

\* the warning console.warn receives for the type tag
UnknownTypeWarning(tag) == "Unknown field type: " \o tag

\* what is left of the sequence s when its i-th element is taken out
Without(s, i) == [j \in 1..(Len(s) - 1) |-> IF j < i THEN s[j] ELSE s[j + 1]]

\* the elements of the sequence s
Range(s) == {s[i] : i \in 1..Len(s)}

\* C23: for each of the six field types (text, number, currency, date,
\* textarea, select) renderField returns an element, never nothing, and
\* emits no unknown-type warning.
C23_EveryFieldTypeRendered ==
  Rendered =>
    \A i \in 1..Len(callArgs.fields) :
      callArgs.fields[i].type \in FieldTypes =>
        /\ callResult.value.items[i].child # Null
        /\ UnknownTypeWarning(callArgs.fields[i].type) \notin Range(callResult.value.warnings)

\* C24: for a field whose type tag is not a field type, renderField returns
\* nothing, emits a warning and does not throw, and every other field of the
\* section is rendered in its place and order as it is without that field.
C24_UnknownTypeSkipped ==
  Rendered =>
    LET fields == callArgs.fields
    IN \A i \in 1..Len(fields) :
         fields[i].type \notin FieldTypes =>
           /\ callResult.kind = "return"
           /\ Len(callResult.value.items) = Len(fields)
           /\ callResult.value.items[i].key = fields[i].name
           /\ callResult.value.items[i].child = Null
           /\ UnknownTypeWarning(fields[i].type) \in Range(callResult.value.warnings)
           /\ Without(callResult.value.items, i) =
                renderFormSection(Without(fields, i)).items

\* an unknown field between two known ones, which are both rendered
C24_Witness ==
  /\ Rendered
  /\ Len(callArgs.fields) = 3
  /\ callArgs.fields[1].type = "text"
  /\ callArgs.fields[2].type = "checkbox"
  /\ callArgs.fields[3].type = "date"
  /\ callResult.value.items[1].child # Null
  /\ callResult.value.items[2].child = Null
  /\ callResult.value.items[3].child # Null
  /\ callResult.value.warnings = <<UnknownTypeWarning("checkbox")>>

(***************************************************************************)
(* Properties of CurrencyField.                                            *)
(***************************************************************************)

InField == callArgs.fn = "CurrencyField"

\* the digits of the text of the last change event, in their order
TypedDigits == SelectSeq(callArgs.raw, LAMBDA c : c \in Range(Digits))

\* the numeral of the number these digits form: 0 when there is none
TypedNumeral == IF TypedDigits = <<>> THEN <<"0">> ELSE StripLeadingZeros(TypedDigits)

\* the numeral of the number in form state
StoredNumeral == NumberToString(values.annualGrossIncome)

\* C25, for raw texts of any length: after any change events the value in
\* form state is the non-negative integer formed by the digits of the last
\* raw text in their order, and 0 when that text has no digit.
C25_StoredIsNumberOfDigits ==
  InField =>
    /\ values.annualGrossIncome.t = "number"
    /\ StoredNumeral = TypedNumeral

\* C25: after any change events with raw texts of at most 15 digits, the
\* value in form state is the non-negative integer formed by the digits of
\* the last raw text in their order, and 0 when that text has no digit; no
\* other character reaches form state.
C25_StoredIsNumberOfUpTo15Digits ==
  InField =>
    /\ values.annualGrossIncome.t = "number"
    /\ StoredNumeral \in Seq(Range(Digits))
    /\ Len(TypedDigits) <= 15 => StoredNumeral = TypedNumeral

\* the text "12a3" was typed and 123 is stored
C25_Witness ==
  /\ InField
  /\ phase = "change"
  /\ callArgs.raw = <<"1", "2", "a", "3">>
  /\ values.annualGrossIncome = Num(123)

StoredIsZero == StoredNumeral = <<"0">>

\* symbol, space, grouped amount with two decimals for the stored value
StoredFormatted ==
  IF IsBig(values.annualGrossIncome) \/ Len(StoredNumeral) > 7
  THEN SymbolOf(values.currency.v) \o " " \o Join(GroupDigits(StoredNumeral)) \o ".00"
  ELSE FormatCurrency(SymbolOf(values.currency.v), values.annualGrossIncome.v * 100)

Located == phase = "once" /\ callArgs.fn = "getDefaultCurrency"

\* navigator.language || "en-US"
RuntimeLocale ==
  IF callArgs.locale = Locale("", "") THEN Locale("en", "US") ELSE callArgs.locale

\* the positions in localeMap of the runtime locale / of its language
KeyPositions == {i \in 1..Len(localeMap) : localeMap[i].key = RuntimeLocale}
LanguagePositions ==
  {i \in 1..Len(localeMap) : localeMap[i].key.lang = RuntimeLocale.lang}

\* the least of a non-empty set of positions
First(positions) == CHOOSE i \in positions : \A j \in positions : i <= j

\* C28, with USD for every other locale: getDefaultCurrency returns the
\* mapped code when the
\* runtime locale is a key of the locale map and USD for every locale that
\* is not a key of it.
C28_MappedOrUSD ==
  Located =>
    callResult.v = (IF KeyPositions # {} THEN localeMap[First(KeyPositions)].code
                    ELSE USD)

\* C28: getDefaultCurrency returns the mapped code when the runtime locale
\* is a key of the locale map; else the code of the first key that starts
\* with the language of the locale and a hyphen; and USD when there is no
\* such key.
C28_MappedOrLanguageOrUSD ==
  Located =>
    callResult.v =
      (IF KeyPositions # {} THEN localeMap[First(KeyPositions)].code
       ELSE IF LanguagePositions # {} THEN localeMap[First(LanguagePositions)].code
       ELSE USD)

\* de-AT is no key and EUR, the code of de-DE, has been returned
C28_Witness ==
  /\ Located
  /\ callArgs.locale = Locale("de", "AT")
  /\ callResult = Str(EUR)

(***************************************************************************)
(* Properties of the debounced total.                                      *)
(***************************************************************************)
\* the text the callback writes for the current field values at time t
ExpectedTotal(t) == FormattedTotal(EffectArgs(values), ClockAt(t))

\* the quiet period after the last change of the watched values is over and
\* its computation has run
Settled ==
  /\ mounted
  /\ \/ now > lastChangeTime + DebounceWait
     \/ now = lastChangeTime + DebounceWait /\ calcRuns > 0 /\ lastRunTime = now

C2_NoRunAfterUnmount ==
  [][~mounted => (calcRuns' = calcRuns /\ totalIncome' = totalIncome)]_vars

\* the timeout that was waiting at the unmount has expired
C2_Witness ==
  /\ ~mounted
  /\ debounce.timerId
  /\ ~debounce.armed
  /\ now >= debounce.lastCallTime + DebounceWait

\* C3: once the watched values have been unchanged for 500 ms in a mounted
\* form, the total is the formatted calculateTotalIncome of the current
\* values (those of the last change), computed when that period ended; the
\* total changes at no other moment.
C3_TotalOfLastChange ==
  /\ [](Settled => totalIncome = ExpectedTotal(lastChangeTime + DebounceWait))
  /\ [][totalIncome' # totalIncome =>
          (mounted /\ now = lastChangeTime + DebounceWait)]_vars

\* the total of an income of 1200 over exactly one year, in euros, is shown
C3_Witness ==
  /\ Settled
  /\ now > lastChangeTime + DebounceWait
  /\ values.annualGrossIncome = Num(1200)
  /\ totalIncome = "€ 1,200.00"

(***************************************************************************)
(* Properties of the displayed total.                                      *)
(***************************************************************************)

\* text is symbol, one space and an amount that ends in a digit, a point
\* and two digits
HasMoneyForm(text, symbol) ==
  LET n == Len(text)
      p == Len(symbol) + 1
      IsDigitAt(i) == SubSeq(text, i, i) \in Range(Digits)
  IN /\ n >= p + 4
     /\ SubSeq(text, 1, p) = symbol \o " "
     /\ IsDigitAt(p + 1)
     /\ IsDigitAt(n - 3)
     /\ SubSeq(text, n - 2, n - 2) = "."
     /\ IsDigitAt(n - 1)
     /\ IsDigitAt(n)

\* C27: in every state of the form, the state after mount before the first
\* debounced computation included, the displayed total is symbol, one space,
\* amount with two decimals; the symbol is that of the default currency at
\* first and that of the currency of the last computation afterwards.
C27_TotalAlwaysFormatted ==
  /\ calcRuns = 0 => HasMoneyForm(totalIncome, SymbolOf(defaultCurrency))
  /\ calcRuns > 0 =>
       /\ \E i \in 1..Len(SUPPORTED_CURRENCIES) :
            HasMoneyForm(totalIncome, SUPPORTED_CURRENCIES[i].symbol)
       /\ Settled => HasMoneyForm(totalIncome, SymbolOf(values.currency.v))

\* C27 after the first computation: the displayed total is symbol, one
\* space, amount with two decimals
C27_FormattedAfterFirstRun ==
  calcRuns > 0 =>
    /\ \E i \in 1..Len(SUPPORTED_CURRENCIES) :
         HasMoneyForm(totalIncome, SUPPORTED_CURRENCIES[i].symbol)
    /\ Settled => HasMoneyForm(totalIncome, SymbolOf(values.currency.v))

(***************************************************************************)
(* Properties of the edits of the form state.                              *)
(***************************************************************************)

\* the values the input of a field hands to field.onChange
WrittenValues(key) ==
  CASE key = "employerName" -> {Str(text) : text \in NameChoices}
    [] key = "notes" -> {Str(text) : text \in NoteChoices}
    [] key = "annualGrossIncome" -> {CurrencyFieldValue(raw) : raw \in RawIncomes}
    [] key = "employmentStartDate" -> {DateFieldValue(picked) : picked \in PickedStartDates}
    [] OTHER -> {}

\* every field holds its default or a value an edit of that field has written
EachFieldDefaultOrWritten ==
  \A k \in Range(FormKeys) :
    values[k] \in WrittenValues(k) \cup {DefaultValues(defaultCurrency)[k]}

\* a step that changes the form state is a reset to the defaults or writes
\* one value of its input to one field and leaves the others as they are
EditWritesOneField ==
  values' # values =>
    \/ values' = DefaultValues(defaultCurrency)
    \/ \E k \in Range(FormKeys) :
         /\ values'[k] \in WrittenValues(k)
         /\ \A j \in Range(FormKeys) \ {k} : values'[j] = values[j]

Invalid == SchemaIssues(values, ClockAt(now)) # {}

\* what an accepted submit of the values v exports: the members of v in the
\* order of the schema, the name trimmed, every string escaped character by
\* character
ExpectedExport(v) ==
  JsonMembers(Obj([employerName |-> Str(EscapeEach(Trim(v.employerName.v))),
                   currency |-> Str(EscapeEach(v.currency.v)),
                   annualGrossIncome |-> v.annualGrossIncome,
                   employmentStartDate |-> v.employmentStartDate,
                   employmentEndDate |-> v.employmentEndDate,
                   notes |-> IF v.notes = Undef THEN Undef
                             ELSE Str(EscapeEach(v.notes.v))]), FormKeys)

\* C4: sanitizeFormData and the download run only in a submit event whose
\* form data passes employmentSchema.  A step that is no submit calls
\* neither; a submit with a validation error calls neither and leaves the
\* success notification as it was; an accepted submit calls sanitizeFormData
\* exactly once, and what it hands to the browser, if anything, is the
\* serialization of the sanitized data, which it does hand over when nothing
\* throws.
C4_SanitizeAndExportOnValidSubmitOnly ==
  [][/\ submitCount' = submitCount =>
          /\ sanitizeCalls' = sanitizeCalls
          /\ submitLog' = submitLog
     /\ (submitCount' # submitCount /\ Invalid) =>
          /\ sanitizeCalls' = sanitizeCalls
          /\ submitLog'.downloaded = NoContent
          /\ ~submitLog'.urlCreated
          /\ showSuccess' = showSuccess
     /\ (submitCount' # submitCount /\ ~Invalid) =>
          /\ sanitizeCalls' = sanitizeCalls + 1
          /\ submitLog'.downloaded \in {NoContent, ExpectedExport(values)}
          /\ submitLog'.caught = NoThrow =>
                /\ submitLog'.downloaded = ExpectedExport(values)
                /\ showSuccess'
    ]_vars

\* an accepted submit of a name with markup characters and blanks exported
\* the escaped, trimmed name
C4_Witness ==
  /\ submitCount = 1
  /\ sanitizeCalls = 1
  /\ values.employerName = Str(<<" ", "<", "&">>)
  /\ submitLog.caught = NoThrow
  /\ submitLog.downloaded # NoContent
  /\ submitLog.downloaded[1].text = JsonQuote(EntLt \o EntAmp)
  /\ showSuccess

\* C5: when handleFormSubmit has finished, an artifact URL it created with
\* URL.createObjectURL has been released with URL.revokeObjectURL, whatever
\* the later steps did.
C5_UrlReleasedOnEveryExit ==
  submitLog.urlCreated => submitLog.urlRevoked

\* C6: a failure inside handleFormSubmit does not leave the handler; the
\* download-error message is the one of its class (SecurityError,
\* QuotaExceededError, any other error, each different from the others), the
\* failure is logged and the attempt does not set the success notification.
C6_FailureCaughtAndReported ==
  [][(submitCount' # submitCount /\ submitLog'.caught # NoThrow) =>
       LET error == submitLog'.caught IN
       /\ ~submitLog'.escaped
       /\ submitLog'.logged
       /\ showSuccess' = showSuccess
       /\ downloadError' # NoMessage
       /\ error.name = "SecurityError" => downloadError' = SecurityMessage
       /\ error.name = "QuotaExceededError" => downloadError' = QuotaMessage
       /\ error.name \notin {"SecurityError", "QuotaExceededError"} =>
            /\ downloadError' \notin {SecurityMessage, QuotaMessage}
            /\ downloadError'[Len(downloadError')] = error.message
       /\ SecurityMessage # QuotaMessage
    ]_vars

\* the click of the download link threw a SecurityError
C6_Witness ==
  /\ submitCount = 1
  /\ submitLog.caught.name = "SecurityError"
  /\ submitLog.urlCreated
  /\ submitLog.logged
  /\ downloadError = SecurityMessage
  /\ ~showSuccess

\* C30: after any submits, resets and dismissals the success notification
\* and the download-error notification are never shown at the same time.
C30_NotificationsExclusive == ~(showSuccess /\ downloadError # NoMessage)

====
